---------------------------- MODULE Spec2Model ----------------------------
(***************************************************************************)
(* SEDCalculator (src/src/psa/core/sed_calculator.py) as a state machine:  *)
(* construction of the reciprocal lattice, then one call of calculate,     *)
(* stepped through validation, atom grouping and the k-chunk loop.         *)
(*                                                                         *)
(* Arithmetic is exact.  Lengths are integers, k-vectors are integer       *)
(* multiples of pi/2 per unit length, so that every phase factor           *)
(* exp(i k.r) is a power of i and every amplitude a Gaussian integer       *)
(* <<re, im>>.  Frame counts divide 4, so the DFT twiddles are powers of   *)
(* i too, and the velocities are multiples of 4, so that the division by   *)
(* the frame count is exact.  Reciprocal vectors are kept in units of      *)
(* 2 pi as a numerator vector over an integer denominator.                 *)
(***************************************************************************)
EXTENDS Integers, Sequences, FiniteSets, TLC

VARIABLES
    traj,               \* the Trajectory handed to the constructor
    ctor,               \* constructor arguments nx, ny, nz, use_displacements
    self,               \* the calculator's fields a1..a3, b1..b3, dt_ps
    args,               \* the arguments of the call of calculate
    pc,                 \* position: new, ready, grouping, loop, returned, raised
    err,                \* the exception raised, "" when none
    log,                \* the set of warnings logged
    mean_pos_all,       \* calculate's local: per-atom time-averaged position
    freqs,              \* calculate's local: the frequency axis
    atom_groups,        \* calculate's local: the resolved groups
    actual_k_chunk_size,
    num_chunks,
    i_chunk,            \* chunks processed so far
    is_complex_output,
    full_sed_data,      \* the array being filled, [shape, data]
    writes,             \* per k column, how many chunk assignments wrote it
    result,             \* the SED returned, kind "none" before the return
    recon               \* ised's locals: groups, k-path, matches, wiggles

vars == <<traj, ctor, self, args, pc, err, log, mean_pos_all, freqs, atom_groups,
          actual_k_chunk_size, num_chunks, i_chunk, is_complex_output,
          full_sed_data, writes, result, recon>>

---------------------------------------------------------------------------
(* Bounds of the model. *)
MaxAtoms == 2
MaxFrames == 2
MaxK == 3
MaxLen == 2
MaxCell == 2

---------------------------------------------------------------------------
(* Integer, vector and complex helpers. *)

Min(a, b) == IF a <= b THEN a ELSE b

Max(a, b) == IF a >= b THEN a ELSE b

Abs(a) == IF a >= 0 THEN a ELSE -a

Range(s) == {s[i] : i \in 1..Len(s)}

RECURSIVE SumInts(_)
SumInts(s) == IF Len(s) = 0 THEN 0 ELSE Head(s) + SumInts(Tail(s))

Dot(u, v) == u[1] * v[1] + u[2] * v[2] + u[3] * v[3]

Cross(u, v) == <<u[2] * v[3] - u[3] * v[2],
                 u[3] * v[1] - u[1] * v[3],
                 u[1] * v[2] - u[2] * v[1]>>

VAdd(u, v) == <<u[1] + v[1], u[2] + v[2], u[3] + v[3]>>

VSub(u, v) == <<u[1] - v[1], u[2] - v[2], u[3] - v[3]>>

VScale(c, v) == <<c * v[1], c * v[2], c * v[3]>>

VDiv(v, n) == <<v[1] \div n, v[2] \div n, v[3] \div n>>

ZeroVec == <<0, 0, 0>>

CZero == <<0, 0>>

CAdd(x, y) == <<x[1] + y[1], x[2] + y[2]>>

CMul(x, y) == <<x[1] * y[1] - x[2] * y[2], x[1] * y[2] + x[2] * y[1]>>

CScale(r, x) == <<r * x[1], r * x[2]>>

CDiv(x, n) == <<x[1] \div n, x[2] \div n>>

CAbs2(x) == x[1] * x[1] + x[2] * x[2]

\* i^q
CUnit(q) == CASE q % 4 = 0 -> <<1, 0>>
              [] q % 4 = 1 -> <<0, 1>>
              [] q % 4 = 2 -> <<-1, 0>>
              [] OTHER     -> <<0, -1>>

RECURSIVE CSum(_)
CSum(s) == IF Len(s) = 0 THEN CZero ELSE CAdd(Head(s), CSum(Tail(s)))

SeqsUpTo(S, n) == UNION {[1..m -> S] : m \in 0..n}

---------------------------------------------------------------------------
(* Python values of the basis selectors: None, an int, a list whose items  *)
(* are ints or lists of ints, or a numpy array of ints with its ndim.      *)

PyNone == [kind |-> "none", val |-> 0, ndim |-> 0, items |-> <<>>]

PyInt(n) == [kind |-> "int", val |-> n, ndim |-> 0, items |-> <<>>]

PyList(xs) == [kind |-> "list", val |-> 0, ndim |-> 0, items |-> xs]

PyArray(d, xs) == [kind |-> "ndarray", val |-> 0, ndim |-> d, items |-> xs]

IntItems(s) == [i \in 1..Len(s) |-> PyInt(s[i])]

FlatList(s) == PyList(IntItems(s))

NestedList(ss) == PyList([i \in 1..Len(ss) |-> FlatList(ss[i])])

Array1D(s) == PyArray(1, IntItems(s))

\* the ints of a list or array of ints
Ints(v) == [i \in 1..Len(v.items) |-> v.items[i].val]

AllLists(v) == \A i \in 1..Len(v.items) : v.items[i].kind = "list"

AllInts(v) == \A i \in 1..Len(v.items) : v.items[i].kind = "int"


Some(v) == [some |-> TRUE, val |-> v]

NoneOpt == [some |-> FALSE, val |-> 0]

---------------------------------------------------------------------------
(* SEDCalculator.__init__ *)

NoSelf == [a1 |-> ZeroVec, a2 |-> ZeroVec, a3 |-> ZeroVec,
           b1 |-> [num |-> ZeroVec, den |-> 1],
           b2 |-> [num |-> ZeroVec, den |-> 1],
           b3 |-> [num |-> ZeroVec, den |-> 1],
           dt_ps |-> 0]

\* line 21
DimsPositive(nx, ny, nz) == nx > 0 /\ ny > 0 /\ nz > 0

\* lines 26-35: the explicit dt_ps overrides the trajectory's
ResolveDt(dt_arg, tr) ==
    IF dt_arg.some THEN dt_arg
    ELSE IF tr.dt_ps.some THEN tr.dt_ps
    ELSE NoneOpt

\* lines 40-41: the rows of the box matrix over the repeat counts
PrimitiveVectors(box, nx, ny, nz) ==
    <<VDiv(box[1], nx), VDiv(box[2], ny), VDiv(box[3], nz)>>

\* line 43: norm(v) < 1e-9, on integer vectors
NearZero(v) == Dot(v, v) = 0

vol_prim_lengths(a) == Dot(a[1], a[1]) * Dot(a[2], a[2]) * Dot(a[3], a[3])

\* line 46
vol_prim(a) == Abs(Dot(a[1], Cross(a[2], a[3])))

\* line 49: det of the matrix whose rows are a1, a2, a3
Det(a) == Dot(a[1], Cross(a[2], a[3]))

\* lines 53-55, in units of 2 pi: a numerator vector over vol_prim
ReciprocalVectors(a) ==
    <<[num |-> Cross(a[2], a[3]), den |-> vol_prim(a)],
      [num |-> Cross(a[3], a[1]), den |-> vol_prim(a)],
      [num |-> Cross(a[1], a[2]), den |-> vol_prim(a)]>>

\* The outcome of __init__: the exception, or the fields and the warnings.
ConstructOutcome(tr, c) ==
    LET dt == ResolveDt(c.dt_ps, tr)
        a == PrimitiveVectors(tr.box_matrix, c.nx, c.ny, c.nz)
        b == ReciprocalVectors(a)
        w == IF c.dt_ps.some THEN {"dt_ps deprecated"} ELSE {}
    IN  IF ~DimsPositive(c.nx, c.ny, c.nz)
        THEN [err |-> "ValueError: dimensions must be positive", log |-> {}, self |-> NoSelf]
        ELSE IF ~dt.some
        THEN [err |-> "ValueError: dt_ps not found", log |-> w, self |-> NoSelf]
        ELSE IF dt.val <= 0
        THEN [err |-> "ValueError: dt_ps must be positive", log |-> w, self |-> NoSelf]
        ELSE IF \E i \in 1..3 : NearZero(a[i])
        THEN [err |-> "ValueError: primitive vector near zero", log |-> w, self |-> NoSelf]
        ELSE IF vol_prim(a) = 0 /\ Det(a) = 0
        THEN [err |-> "ValueError: primitive cell volume zero", log |-> w, self |-> NoSelf]
        ELSE [err |-> "",
              log |-> IF vol_prim(a) = 0 THEN w \cup {"volume very small"} ELSE w,
              self |-> [a1 |-> a[1], a2 |-> a[2], a3 |-> a[3],
                        b1 |-> b[1], b2 |-> b[2], b3 |-> b[3],
                        dt_ps |-> dt.val]]

---------------------------------------------------------------------------
(* numpy helpers used by calculate *)

RECURSIVE SortedSeq(_)
\* the elements of a finite set of integers in ascending order
SortedSeq(S) ==
    IF S = {} THEN <<>>
    ELSE LET m == CHOOSE x \in S : \A y \in S : x <= y
         IN  <<m>> \o SortedSeq(S \ {m})

RECURSIVE Concatenate(_)
\* np.concatenate of a list of 1-D arrays
Concatenate(gs) == IF Len(gs) = 0 THEN <<>> ELSE Head(gs) \o Concatenate(Tail(gs))

\* np.unique: sorted, duplicates removed
Unique(s) == SortedSeq(Range(s))

\* np.arange(n)
Arange(n) == [i \in 1..n |-> i - 1]

\* np.where(np.isin(types, type_group))[0]: ascending 0-based atom indices
WhereIsin(types, type_group) ==
    SortedSeq({a \in 0..(Len(types) - 1) : types[a + 1] \in Range(type_group)})

NonEmpty(g) == Len(g) > 0

\* the axis shifted to ascending order, zero in the middle
FftFreq_shifted(n, d) ==
    [i \in 1..n |-> <<i - 1 - (n \div 2), n * d>>]

\* np.fft.fftfreq(n, d): entry <<numerator, n * d>>
FftFreq(n, d) ==
    [i \in 1..n |-> <<IF i - 1 <= (n - 1) \div 2 THEN i - 1 ELSE i - 1 - n, n * d>>]

Zeros3(nf, nk) == [w \in 1..nf |-> [k \in 1..nk |-> [p \in 1..3 |-> CZero]]]

Zeros2(nf, nk) == [w \in 1..nf |-> [k \in 1..nk |-> 0]]

\* np.mean(positions, axis=0): exact on the trajectories drawn here
MeanPositions(tr) ==
    [a \in 1..tr.n_atoms |->
        LET sum(c) == SumInts([t \in 1..tr.n_frames |-> tr.positions[t][a][c]])
        IN  <<sum(1) \div tr.n_frames, sum(2) \div tr.n_frames, sum(3) \div tr.n_frames>>]

---------------------------------------------------------------------------
(* SEDCalculator._calculate_sed_for_group: the complex (frame x k x 3)     *)
(* array of one group, a sequence of 0-based atom indices.                 *)

\* lines 69-72: displacement or velocity of atom a (0-based) at frame t
DataFt(tr, use_displacements, mean_pos, t, a) ==
    IF use_displacements
    THEN VSub(tr.positions[t][a + 1], mean_pos[a + 1])
    ELSE tr.velocities[t][a + 1]

\* line 78: exp(1j * k . mean_pos), k in units of pi/2
PhaseFactor(kvec, r) == CUnit(Dot(kvec, r))

\* line 81: the einsum over the group's atoms at frame t
SpatialSum(tr, use_displacements, mean_pos, grp, kvec, t, p) ==
    CSum([j \in 1..Len(grp) |->
            CScale(DataFt(tr, use_displacements, mean_pos, t, grp[j])[p],
                   PhaseFactor(kvec, mean_pos[grp[j] + 1]))])

\* the DFT kernel exp(-2 pi i w t / n), for n dividing 4
Twiddle(w, t, n) == CUnit(-((4 * w * t) \div n))

\* line 83: np.fft.fft(x, axis=0)[w]
Fft(x, w) == CSum([t \in 1..Len(x) |-> CMul(x[t], Twiddle(w - 1, t - 1, Len(x)))])

\* line 83: the division by the number of frames
Normalize(z, n_t) == CDiv(z, n_t)

calculate_sed_for_group(tr, use_displacements, k_vectors_3d, group_atom_indices, mean_pos) ==
    LET n_t == tr.n_frames
        n_k_vecs == Len(k_vectors_3d)
        sed_tk(k, p) == [t \in 1..n_t |->
            SpatialSum(tr, use_displacements, mean_pos, group_atom_indices,
                       k_vectors_3d[k], t, p)]
    IN  IF Len(group_atom_indices) = 0
        THEN Zeros3(n_t, n_k_vecs)
        ELSE [w \in 1..n_t |-> [k \in 1..n_k_vecs |-> [p \in 1..3 |->
                IF n_t > 0 THEN Normalize(Fft(sed_tk(k, p), w), n_t) ELSE CZero]]]

---------------------------------------------------------------------------
(* SEDCalculator.calculate: validation, early return, atom grouping *)

ValidMode(m) == m \in {"coherent", "incoherent"}

\* line 194
Degenerate(n_t, n_atoms_tot) == n_t = 0 \/ n_atoms_tot = 0

NoArray == [shape |-> <<0>>, data |-> <<>>]

NoSED == [kind |-> "none", sed |-> NoArray, freqs |-> <<>>, k_vectors |-> <<>>,
          is_complex |-> FALSE, phase |-> "None"]

SED(sed, fr, k_vectors, is_complex) ==
    [kind |-> "SED", sed |-> sed, freqs |-> fr, k_vectors |-> k_vectors,
     is_complex |-> is_complex, phase |-> "None"]

\* a degenerate trajectory refused instead of answered
EarlyReturn_raises(k_vectors_3d) ==
    [pc |-> "raised", err |-> "ValueError: 0 frames or 0 atoms", result |-> NoSED]

\* lines 195-203: the SED returned for 0 frames or 0 atoms
EarlyReturn(k_vectors_3d) ==
    [pc |-> "returned", err |-> "",
     result |-> SED([shape |-> <<0, 0, 3>>, data |-> <<>>], <<>>, k_vectors_3d, TRUE)]

\* a flat list of types is merged in both modes
ProcessedTypes_merged(basis_atom_types, summation_mode) ==
    IF basis_atom_types.kind = "list" /\ Len(basis_atom_types.items) > 0
    THEN IF AllLists(basis_atom_types)
         THEN [err |-> "",
               groups |-> [i \in 1..Len(basis_atom_types.items) |->
                              Ints(basis_atom_types.items[i])]]
         ELSE IF AllInts(basis_atom_types)
         THEN [err |-> "", groups |-> <<Ints(basis_atom_types)>>]
         ELSE [err |-> "ValueError: basis_atom_types must be a list of ints or a list of lists",
               groups |-> <<>>]
    ELSE IF basis_atom_types.kind = "int"
    THEN [err |-> "", groups |-> <<(<<basis_atom_types.val>>)>>]
    ELSE [err |-> "", groups |-> <<>>]

\* lines 215-227: the type groups asked for
ProcessedTypes(basis_atom_types, summation_mode) ==
    IF basis_atom_types.kind = "list" /\ Len(basis_atom_types.items) > 0
    THEN IF AllLists(basis_atom_types)
         THEN [err |-> "",
               groups |-> [i \in 1..Len(basis_atom_types.items) |->
                              Ints(basis_atom_types.items[i])]]
         ELSE IF AllInts(basis_atom_types)
         THEN IF summation_mode = "incoherent"
              THEN [err |-> "",
                    groups |-> [i \in 1..Len(basis_atom_types.items) |->
                                   <<basis_atom_types.items[i].val>>]]
              ELSE [err |-> "", groups |-> <<Ints(basis_atom_types)>>]
         ELSE [err |-> "ValueError: basis_atom_types must be a list of ints or a list of lists",
               groups |-> <<>>]
    ELSE IF basis_atom_types.kind = "int"
    THEN [err |-> "", groups |-> <<(<<basis_atom_types.val>>)>>]
    ELSE [err |-> "", groups |-> <<>>]

\* lines 229-234: the atoms of each type group, empty groups skipped
TypeGroups(types, processed) ==
    SelectSeq([i \in 1..Len(processed) |-> WhereIsin(types, processed[i])], NonEmpty)

TypeWarnings(types, processed) ==
    IF \E i \in 1..Len(processed) : Len(WhereIsin(types, processed[i])) = 0
    THEN {"no atoms found for type group"} ELSE {}

\* lines 237-254: the index arrays asked for, empty ones skipped
ProcessedIndices(basis_atom_indices) ==
    IF basis_atom_indices.kind = "list"
    THEN IF Len(basis_atom_indices.items) = 0
         THEN [err |-> "", log |-> {}, groups |-> <<>>]
         ELSE IF AllLists(basis_atom_indices)
         THEN [err |-> "", log |-> {},
               groups |-> SelectSeq([i \in 1..Len(basis_atom_indices.items) |->
                                        Ints(basis_atom_indices.items[i])], NonEmpty)]
         ELSE IF AllInts(basis_atom_indices)
         THEN [err |-> "", log |-> {}, groups |-> <<Ints(basis_atom_indices)>>]
         ELSE [err |-> "ValueError: basis_atom_indices must be a list of ints or a list of lists",
               log |-> {}, groups |-> <<>>]
    ELSE IF basis_atom_indices.kind = "ndarray"
    THEN IF basis_atom_indices.ndim = 1 /\ Len(basis_atom_indices.items) > 0
         THEN [err |-> "", log |-> {}, groups |-> <<Ints(basis_atom_indices)>>]
         ELSE [err |-> "", log |-> {"unsupported ndarray format"}, groups |-> <<>>]
    ELSE [err |-> "", log |-> {}, groups |-> <<>>]

\* a bounds test that lets the index n_atoms through
OutOfBounds_inclusive(grp_idx, n_atoms_tot) ==
    \E i \in 1..Len(grp_idx) : grp_idx[i] > n_atoms_tot \/ grp_idx[i] < 0

\* line 257
OutOfBounds(grp_idx, n_atoms_tot) ==
    \E i \in 1..Len(grp_idx) : grp_idx[i] >= n_atoms_tot \/ grp_idx[i] < 0

\* no fallback to all atoms
Fallback_none(groups, n_atoms_tot) == groups

\* lines 262-264
Fallback(groups, n_atoms_tot) ==
    IF Len(groups) = 0 THEN <<Arange(n_atoms_tot)>> ELSE groups

\* the explicit indices win when both selectors are given
UseTypes_indices_first(basis_atom_indices, basis_atom_types) ==
    basis_atom_types.kind # "none" /\ basis_atom_indices.kind = "none"

\* lines 211 and 236: the type branch is taken whenever types are given
UseTypes(basis_atom_indices, basis_atom_types) == basis_atom_types.kind # "none"

\* lines 209-266: the groups, the warnings and the exception if any
ResolveGroups(tr, basis_atom_indices, basis_atom_types, summation_mode) ==
    IF UseTypes(basis_atom_indices, basis_atom_types)
    THEN LET pt == ProcessedTypes(basis_atom_types, summation_mode)
             both == IF basis_atom_indices.kind # "none"
                     THEN {"both basis_atom_types and basis_atom_indices provided"}
                     ELSE {}
         IN  IF pt.err # ""
             THEN [err |-> pt.err, log |-> both, groups |-> <<>>]
             ELSE [err |-> "",
                   log |-> both \cup TypeWarnings(tr.types, pt.groups),
                   groups |-> Fallback(TypeGroups(tr.types, pt.groups), tr.n_atoms)]
    ELSE IF basis_atom_indices.kind # "none"
    THEN LET pi == ProcessedIndices(basis_atom_indices)
         IN  IF pi.err # ""
             THEN [err |-> pi.err, log |-> pi.log, groups |-> <<>>]
             ELSE IF \E i \in 1..Len(pi.groups) : OutOfBounds(pi.groups[i], tr.n_atoms)
             THEN [err |-> "ValueError: atom indices in basis out of bounds",
                   log |-> pi.log, groups |-> <<>>]
             ELSE [err |-> "", log |-> pi.log,
                   groups |-> Fallback(pi.groups, tr.n_atoms)]
    ELSE [err |-> "", log |-> {}, groups |-> Fallback(<<>>, tr.n_atoms)]

---------------------------------------------------------------------------
(* SEDCalculator.calculate: the k-vector chunking *)

\* line 271
ActualChunkSize(k_chunk_size, num_k_vectors) ==
    IF num_k_vectors > 0 THEN Min(Max(1, k_chunk_size), num_k_vectors) ELSE 1

\* a chunk count that rounds down: the last, partial chunk is lost
NumChunks_floor(num_k_vectors, chunk_size) ==
    IF num_k_vectors > 0 THEN num_k_vectors \div chunk_size ELSE 0

\* line 272
NumChunks(num_k_vectors, chunk_size) ==
    IF num_k_vectors > 0
    THEN (num_k_vectors + chunk_size - 1) \div chunk_size
    ELSE 0

\* the complex path chosen by the mode alone
IsComplexOutput_mode_only(summation_mode, groups) == summation_mode = "coherent"

\* line 276
IsComplexOutput(summation_mode, groups) ==
    summation_mode = "coherent" \/ Len(groups) <= 1

\* the array has three axes whatever the flag
Allocate_three_axes(is_complex, nf, num_k_vectors) ==
    [shape |-> <<nf, num_k_vectors, 3>>, data |-> Zeros3(nf, num_k_vectors)]

\* lines 277 and 280
Allocate(is_complex, nf, num_k_vectors) ==
    IF is_complex
    THEN [shape |-> <<nf, num_k_vectors, 3>>, data |-> Zeros3(nf, num_k_vectors)]
    ELSE [shape |-> <<nf, num_k_vectors>>, data |-> Zeros2(nf, num_k_vectors)]

\* line 288, 0-based, inclusive
ChunkStart(i, chunk_size) == i * chunk_size

\* line 289, 0-based, exclusive
ChunkEnd(i, chunk_size, num_k_vectors) == Min((i + 1) * chunk_size, num_k_vectors)

\* lines 297-302: the atoms of the coherent sum
FinalGroupIndices(groups) ==
    IF Len(groups) > 1 THEN Unique(Concatenate(groups))
    ELSE IF Len(groups) = 1 THEN groups[1]
    ELSE <<>>

\* the intensity of the first two polarization axes only
Intensity_xy(z) == CAbs2(z[1]) + CAbs2(z[2])

\* line 325: np.sum(np.abs(z)**2, axis=-1)
Intensity(z) == CAbs2(z[1]) + CAbs2(z[2]) + CAbs2(z[3])

\* lines 316-325: the intensities of the groups, summed, for one chunk
SummedIntensityChunk(tr, use_displacements, chunk, groups, mean_pos, nf) ==
    LET part(g) == IF Len(groups[g]) = 0 THEN Zeros3(nf, Len(chunk))
                   ELSE calculate_sed_for_group(tr, use_displacements, chunk,
                                                groups[g], mean_pos)
    IN  [w \in 1..nf |-> [k \in 1..Len(chunk) |->
            SumInts([g \in 1..Len(groups) |->
                        IF Len(groups[g]) = 0 THEN 0 ELSE Intensity(part(g)[w][k])])]]

\* lines 311 and 327: full_sed_data[:, start:end] = chunk_data
AssignColumns(full, start, end, chunk_data) ==
    [full EXCEPT !.data =
        [w \in 1..Len(full.data) |-> [k \in 1..Len(full.data[w]) |->
            IF start < k /\ k <= end THEN chunk_data[w][k - start]
            ELSE full.data[w][k]]]]

---------------------------------------------------------------------------
(* The inputs: trajectories, constructor arguments and calls. *)

\* frame counts whose DFT twiddles are powers of i
FrameCounts == {n \in 0..MaxFrames : n \in {0, 1, 2, 4}}

VelSet == {<<4, 0, -4>>, <<0, 8, 4>>}

TypeLabels == {1, 2}

\* atom a (0-based) sits at x = a
Site(a) == <<a, 0, 0>>

\* an oscillation around the site that averages to zero over the frames
Osc(t, n) == IF n % 2 = 1 THEN 0
             ELSE IF t = 1 THEN 1
             ELSE IF t = (n \div 2) + 1 THEN -1
             ELSE 0

UnitBox == <<(<<1, 0, 0>>), (<<0, 1, 0>>), (<<0, 0, 1>>)>>

Trajectory(n_t, n_a, types, vel, box, dt) ==
    [n_frames |-> n_t, n_atoms |-> n_a, types |-> types, velocities |-> vel,
     positions |-> [t \in 1..n_t |-> [a \in 1..n_a |->
                      VAdd(Site(a - 1), VScale(Osc(t, n_t), vel[1][a]))]],
     box_matrix |-> box, dt_ps |-> dt]

\* trajectories in the unit box with timestep 1
Trajectories(frames, atoms, vels) ==
    UNION {UNION {{Trajectory(n_t, n_a, ty, vel, UnitBox, Some(1)) :
                      ty \in [1..n_a -> TypeLabels],
                      vel \in [1..n_t -> [1..n_a -> vels]]} :
                  n_t \in frames} : n_a \in atoms}

Ctor(nx, ny, nz, use_displacements, dt) ==
    [nx |-> nx, ny |-> ny, nz |-> nz, use_displacements |-> use_displacements,
     dt_ps |-> dt]

Call(k_vectors_3d, basis_atom_indices, basis_atom_types, summation_mode, k_chunk_size) ==
    [k_vectors_3d |-> k_vectors_3d, basis_atom_indices |-> basis_atom_indices,
     basis_atom_types |-> basis_atom_types, summation_mode |-> summation_mode,
     k_chunk_size |-> k_chunk_size]

\* k-vectors along x, in units of pi/2
KSet == {<<0, 0, 0>>, <<1, 0, 0>>}

\* ised has not been entered
NoRecon == [avg_pos |-> <<>>, recon_atom_groups |-> <<>>, k_mags_ised |-> <<>>,
            k_vecs_ised |-> <<>>, pos_proj_k_dir |-> <<>>, k_match_idx |-> 0,
            k_actual |-> <<0, 1>>, i_grp |-> 0, w_match_idx |-> 0, wiggles |-> <<>>,
            recon_done |-> FALSE, max_wiggle_amp_all |-> <<0, 1>>,
            std_dev_sum |-> <<0, 1>>, n_atoms_recon_sum |-> 0]

InitWith(Trajs, Ctors, Calls) ==
    /\ traj \in Trajs
    /\ ctor \in Ctors
    /\ args \in Calls
    /\ self = NoSelf
    /\ pc = "new"
    /\ err = ""
    /\ log = {}
    /\ mean_pos_all = <<>>
    /\ freqs = <<>>
    /\ atom_groups = <<>>
    /\ actual_k_chunk_size = 0
    /\ num_chunks = 0
    /\ i_chunk = 0
    /\ is_complex_output = FALSE
    /\ full_sed_data = NoArray
    /\ writes = <<>>
    /\ result = NoSED
    /\ recon = NoRecon

---------------------------------------------------------------------------
(* The steps. *)

\* SEDCalculator(traj, nx, ny, nz, use_displacements, dt_ps)
Construct ==
    /\ pc = "new"
    /\ LET o == ConstructOutcome(traj, ctor)
       IN  /\ self' = o.self
           /\ err' = o.err
           /\ log' = log \cup o.log
           /\ pc' = IF o.err = "" THEN "ready" ELSE "ctor_raised"
    /\ UNCHANGED <<traj, ctor, args, mean_pos_all, freqs, atom_groups,
                   actual_k_chunk_size, num_chunks, i_chunk, is_complex_output,
                   full_sed_data, writes, result, recon>>

\* calculate, lines 190-206: mode check, early return, mean positions, freqs
CalculateEnter ==
    /\ pc = "ready"
    /\ IF ~ValidMode(args.summation_mode)
       THEN /\ pc' = "raised"
            /\ err' = "ValueError: summation_mode"
            /\ UNCHANGED <<log, result, mean_pos_all, freqs>>
       ELSE IF Degenerate(traj.n_frames, traj.n_atoms)
       THEN /\ pc' = EarlyReturn(args.k_vectors_3d).pc
            /\ err' = EarlyReturn(args.k_vectors_3d).err
            /\ result' = EarlyReturn(args.k_vectors_3d).result
            /\ log' = log \cup {"0 frames or 0 atoms"}
            /\ UNCHANGED <<mean_pos_all, freqs>>
       ELSE /\ pc' = "grouping"
            /\ mean_pos_all' = MeanPositions(traj)
            /\ freqs' = IF traj.n_frames > 0 THEN FftFreq(traj.n_frames, self.dt_ps)
                        ELSE <<>>
            /\ UNCHANGED <<err, log, result>>
    /\ UNCHANGED <<traj, ctor, self, args, atom_groups, actual_k_chunk_size,
                   num_chunks, i_chunk, is_complex_output, full_sed_data, writes,
                   recon>>

\* calculate, lines 208-285: the groups, the chunking and the zeroed array
Grouping ==
    /\ pc = "grouping"
    /\ LET g == ResolveGroups(traj, args.basis_atom_indices, args.basis_atom_types,
                              args.summation_mode)
           num_k_vectors == Len(args.k_vectors_3d)
       IN  IF g.err # ""
           THEN /\ pc' = "raised"
                /\ err' = g.err
                /\ log' = log \cup g.log
                /\ UNCHANGED <<atom_groups, actual_k_chunk_size, num_chunks,
                               is_complex_output, full_sed_data, writes>>
           ELSE /\ pc' = "loop"
                /\ atom_groups' = g.groups
                /\ actual_k_chunk_size' = ActualChunkSize(args.k_chunk_size, num_k_vectors)
                /\ num_chunks' = NumChunks(num_k_vectors,
                                           ActualChunkSize(args.k_chunk_size, num_k_vectors))
                /\ is_complex_output' = IsComplexOutput(args.summation_mode, g.groups)
                /\ full_sed_data' = Allocate(IsComplexOutput(args.summation_mode, g.groups),
                                             Len(freqs), num_k_vectors)
                /\ writes' = [k \in 1..num_k_vectors |-> 0]
                /\ log' = log \cup g.log \cup
                          (IF num_k_vectors = 0 THEN {"k_vectors_3d is empty"} ELSE {})
                /\ UNCHANGED err
    /\ i_chunk' = 0
    /\ UNCHANGED <<traj, ctor, self, args, mean_pos_all, freqs, result, recon>>

\* calculate, lines 287-327: one pass of the chunk loop
ProcessChunk ==
    /\ pc = "loop"
    /\ i_chunk < num_chunks
    /\ LET num_k_vectors == Len(args.k_vectors_3d)
           start_idx == ChunkStart(i_chunk, actual_k_chunk_size)
           end_idx == ChunkEnd(i_chunk, actual_k_chunk_size, num_k_vectors)
           current_k_vectors_chunk == SubSeq(args.k_vectors_3d, start_idx + 1, end_idx)
           final_group_indices == FinalGroupIndices(atom_groups)
           written == /\ Len(current_k_vectors_chunk) > 0
                      /\ is_complex_output => Len(final_group_indices) > 0
           chunk_data ==
               IF is_complex_output
               THEN calculate_sed_for_group(traj, ctor.use_displacements,
                        current_k_vectors_chunk, final_group_indices, mean_pos_all)
               ELSE SummedIntensityChunk(traj, ctor.use_displacements,
                        current_k_vectors_chunk, atom_groups, mean_pos_all, Len(freqs))
       IN  /\ full_sed_data' = IF written
                               THEN AssignColumns(full_sed_data, start_idx, end_idx, chunk_data)
                               ELSE full_sed_data
           /\ writes' = IF written
                        THEN [k \in 1..num_k_vectors |->
                                 IF start_idx < k /\ k <= end_idx
                                 THEN writes[k] + 1 ELSE writes[k]]
                        ELSE writes
           /\ log' = IF is_complex_output /\ Len(current_k_vectors_chunk) > 0
                        /\ Len(final_group_indices) = 0
                     THEN log \cup {"final atom group is empty"} ELSE log
    /\ i_chunk' = i_chunk + 1
    /\ UNCHANGED <<traj, ctor, self, args, pc, err, mean_pos_all, freqs, atom_groups,
                   actual_k_chunk_size, num_chunks, is_complex_output, result, recon>>

\* calculate, lines 329-336: the SED returned
Return ==
    /\ pc = "loop"
    /\ i_chunk = num_chunks
    /\ result' = SED(full_sed_data, freqs, args.k_vectors_3d, is_complex_output)
    /\ pc' = "returned"
    /\ UNCHANGED <<traj, ctor, self, args, err, log, mean_pos_all, freqs, atom_groups,
                   actual_k_chunk_size, num_chunks, i_chunk, is_complex_output,
                   full_sed_data, writes, recon>>

Next == Construct \/ CalculateEnter \/ Grouping \/ ProcessChunk \/ Return

---------------------------------------------------------------------------
(* Specifications of calculate: the step relation Next, inputs drawn per  *)
(* family of claims.                                                      *)

DefaultCtors == {Ctor(1, 1, 1, FALSE, NoneOpt)}

BothCtors == {Ctor(1, 1, 1, ud, NoneOpt) : ud \in BOOLEAN}

AlternatingTypes(n_a) == [a \in 1..n_a |-> IF a % 2 = 1 THEN 1 ELSE 2]

\* trajectories with the types fixed to 1, 2, 1, ...
TypedTrajectories(frames, atoms, vels) ==
    {tr \in Trajectories(frames, atoms, vels) : tr.types = AlternatingTypes(tr.n_atoms)}

\* chunking: every k list and chunk size, a few selectors
ChunkCalls ==
    {Call(kv, sel[1], sel[2], m, c) :
        kv \in SeqsUpTo(KSet, MaxK),
        sel \in {<<PyNone, PyNone>>, <<NestedList(<<(<<0>>), (<<0, 1>>)>>), PyNone>>},
        m \in {"coherent", "incoherent"},
        c \in -1..(MaxK + 1)}

InitChunk ==
    InitWith(TypedTrajectories(FrameCounts \ {0}, {2}, VelSet), DefaultCtors, ChunkCalls)

SpecChunk == InitChunk /\ [][Next]_vars

\* selectors: every form of the index and type selectors
IdxVals == -1..MaxAtoms

IdxGroups == SeqsUpTo(IdxVals, 1) \cup {<<0, 0>>, <<0, 1>>}

MixedList == PyList(<<PyInt(0), FlatList(<<0>>)>>)

IndexSelectors ==
    {FlatList(x) : x \in SeqsUpTo(IdxVals, MaxLen)}
    \cup {Array1D(x) : x \in SeqsUpTo(IdxVals, MaxLen)}
    \cup {NestedList(x) : x \in SeqsUpTo(IdxGroups, 2) \ {<<>>}}
    \cup {PyArray(2, IntItems(<<0>>)), MixedList, PyInt(0)}

TypeVals == 1..3

TypeSets == {<<>>, <<1>>, <<2>>, <<3>>, <<1, 2>>}

TypeSelectors ==
    {PyInt(t) : t \in TypeVals}
    \cup {FlatList(x) : x \in SeqsUpTo(TypeVals, MaxLen)}
    \cup {NestedList(x) : x \in SeqsUpTo(TypeSets, 2) \ {<<>>}}
    \cup {MixedList, Array1D(<<1>>)}

BothSelectors ==
    {FlatList(<<0>>), FlatList(<<MaxAtoms>>), FlatList(<<>>), Array1D(<<0>>),
     NestedList(<<(<<0>>), (<<1>>)>>), MixedList}
    \X {PyInt(1), FlatList(<<1, 2>>), FlatList(<<3>>), FlatList(<<>>),
        NestedList(<<(<<2>>)>>), MixedList}

SelectorPairs ==
    {<<PyNone, PyNone>>}
    \cup {<<x, PyNone>> : x \in IndexSelectors}
    \cup {<<PyNone, x>> : x \in TypeSelectors}
    \cup BothSelectors

K1 == <<1, 0, 0>>

SelCalls ==
    {Call(kv, sel[1], sel[2], m, 500) :
        kv \in {<<>>, <<K1>>}, sel \in SelectorPairs, m \in {"coherent", "incoherent"}}
    \cup {Call(<<K1>>, sel[1], sel[2], "power", 500) :
             sel \in {<<PyNone, PyNone>>, <<FlatList(<<MaxAtoms>>), PyNone>>}}

InitSel ==
    InitWith(Trajectories({0, 1}, 0..MaxAtoms, {<<4, 0, -4>>}), DefaultCtors, SelCalls)

SpecSel == InitSel /\ [][Next]_vars

\* summation: velocities vary, the groups overlap, repeat atoms and split by type
SumGroups == {<<0>>, <<1>>, <<0, 0>>, <<0, 1>>, <<1, 0>>}

SumSelectors ==
    {<<PyNone, PyNone>>}
    \cup {<<FlatList(x), PyNone>> : x \in SeqsUpTo({0, 1}, MaxLen)}
    \cup {<<NestedList(x), PyNone>> : x \in SeqsUpTo(SumGroups, 2) \ {<<>>}}
    \cup {<<Array1D(<<0, 1>>), PyNone>>, <<Array1D(<<1, 1>>), PyNone>>}
    \cup {<<PyNone, x>> : x \in
            {PyInt(1), FlatList(<<1>>), FlatList(<<1, 2>>), FlatList(<<2, 1>>),
             FlatList(<<1, 3>>), FlatList(<<3>>),
             NestedList(<<(<<1, 2>>)>>), NestedList(<<(<<1>>), (<<2>>)>>),
             NestedList(<<(<<1>>), (<<1, 2>>)>>)}}

K0 == <<0, 0, 0>>

SumCalls ==
    {Call(<<K0, K1>>, sel[1], sel[2], m, 500) :
        sel \in SumSelectors, m \in {"coherent", "incoherent"}}

SumTrajectories ==
    {tr \in Trajectories(FrameCounts \ {0}, {2}, VelSet) : tr.types \in {<<1, 2>>, <<1, 1>>}}

InitSum == InitWith(SumTrajectories, BothCtors, SumCalls)

SpecSum == InitSum /\ [][Next]_vars

\* geometry: primitive cells of both handednesses, degenerate ones, and
\* every repeat count from 0; the box rows are the cell rows repeated
PrimCells ==
    {<<(<<1, 0, 0>>), (<<0, 1, 0>>), (<<0, 0, 1>>)>>,
     <<(<<1, 0, 0>>), (<<0, 1, 0>>), (<<0, 0, -1>>)>>,
     <<(<<0, 1, 0>>), (<<1, 0, 0>>), (<<0, 0, 1>>)>>,
     <<(<<2, 0, 0>>), (<<1, 2, 0>>), (<<0, 1, 1>>)>>,
     <<(<<2, 0, 0>>), (<<1, 2, 0>>), (<<0, 1, -1>>)>>,
     <<(<<1, 0, 0>>), (<<0, 1, 0>>), (<<1, 1, 0>>)>>,
     <<(<<0, 0, 0>>), (<<0, 1, 0>>), (<<0, 0, 1>>)>>}

Repeat(cell, nx, ny, nz) ==
    <<VScale(Max(nx, 1), cell[1]), VScale(Max(ny, 1), cell[2]), VScale(Max(nz, 1), cell[3])>>

GeomInputs ==
    {<<Trajectory(1, 1, <<1>>, <<(<<(<<4, 0, -4>>)>>)>>, Repeat(cell, n[1], n[2], n[3]), tdt),
       Ctor(n[1], n[2], n[3], FALSE, cdt)>> :
        cell \in PrimCells, n \in (0..MaxCell) \X (0..MaxCell) \X (0..MaxCell),
        tdt \in {NoneOpt, Some(0), Some(1)}, cdt \in {NoneOpt, Some(2)}}

InitGeom ==
    /\ InitWith({x[1] : x \in GeomInputs}, {x[2] : x \in GeomInputs},
                {Call(<<K1>>, PyNone, PyNone, "coherent", 500)})
    /\ <<traj, ctor>> \in GeomInputs

SpecGeom == InitGeom /\ [][Next]_vars

---------------------------------------------------------------------------
(* Exact numbers of the k-space samplers: a rational is <<numerator,       *)
(* denominator>> with a positive denominator; reciprocal lengths are in    *)
(* units of 2 pi.                                                          *)

Q(n, d) == <<n, d>>

QZero == <<0, 1>>

QAdd(x, y) == <<x[1] * y[2] + y[1] * x[2], x[2] * y[2]>>

QSub(x, y) == <<x[1] * y[2] - y[1] * x[2], x[2] * y[2]>>

QMul(x, y) == <<x[1] * y[1], x[2] * y[2]>>

QInv(x) == <<x[2], x[1]>>

QEq(x, y) == x[1] * y[2] = y[1] * x[2]

QLe(x, y) == x[1] * y[2] <= y[1] * x[2]

RECURSIVE QMax(_)
\* max(list) of a non-empty list of rationals
QMax(s) == IF Len(s) = 1 THEN s[1]
           ELSE LET m == QMax(Tail(s))
                IN  IF QLe(m, s[1]) THEN s[1] ELSE m

\* np.linalg.norm of an integer vector whose norm is an integer
ISqrt(n) == CHOOSE r \in 0..n : r * r <= n /\ (r + 1) * (r + 1) > n

Norm(v) == ISqrt(Dot(v, v))

\* the epsilon 1e-6 of get_k_path is 1 / EpsInv
EpsInv == 1000000

\* the default absolute tolerance 1e-8 of np.isclose is 1 / AtolInv
AtolInv == 100000000

\* x <= 1e-6 for a length x, and its negation
LeEps(x) == x[1] <= x[2] \div EpsInv

\* 2 pi x > 1e-6 for a non-negative x in units of 2 pi (6 < 2 pi)
GtEps2Pi(x) == 6 * x[1] > x[2] \div EpsInv

\* np.isclose(2 pi x, 0) (2 pi < 7)
IsCloseZero2Pi(x) == 7 * Abs(x[1]) <= x[2] \div AtolInv

\* np.linspace(start, stop, n): n = 1 gives the start alone
Linspace_open(start, stop, n) ==
    [j \in 1..n |-> QAdd(start, QMul(Q(j - 1, Max(n, 1)), QSub(stop, start)))]

Linspace(start, stop, n) ==
    [j \in 1..n |-> IF n = 1 THEN start
                    ELSE QAdd(start, QMul(Q(j - 1, n - 1), QSub(stop, start)))]

---------------------------------------------------------------------------
(* Direction specifications: a number (an angle in degrees), a string, a   *)
(* list, tuple or array of numbers, a dict, or a value of another type.    *)

DirNum(kind, v) == [kind |-> kind, val |-> v, str |-> "", items |-> <<>>, keys |-> {}]

DirStr(s) == [kind |-> "str", val |-> 0, str |-> s, items |-> <<>>, keys |-> {}]

DirSeq(kind, xs) == [kind |-> kind, val |-> 0, str |-> "", items |-> xs, keys |-> {}]

\* a dict with the given keys among angle, h, k, l; vals = <<angle, h, k, l>>
DirDict(keys, vals) == [kind |-> "dict", val |-> 0, str |-> "", items |-> vals, keys |-> keys]

DirOther == [kind |-> "NoneType", val |-> 0, str |-> "", items |-> <<>>, keys |-> {}]

\* float(s) succeeds on these strings
NumericStrings == {"0", "90", "180", "-90"}

FloatOfStr(s) == CASE s = "0" -> 0
                   [] s = "90" -> 90
                   [] s = "180" -> 180
                   [] OTHER -> -90

\* str.lower() on the strings of the model
Lower(s) == CASE s = "X" -> "x"
              [] s = "Y" -> "y"
              [] s = "Z" -> "z"
              [] s = "XY" -> "xy"
              [] s = "Yz" -> "yz"
              [] s = "ZX" -> "zx"
              [] s = "AUTO" -> "auto"
              [] OTHER -> s

\* cos and sin of an angle in degrees that is a multiple of 90
CosDeg(a) == CASE a % 360 = 0 -> 1
               [] a % 360 = 180 -> -1
               [] OTHER -> 0

SinDeg(a) == CASE a % 360 = 90 -> 1
               [] a % 360 = 270 -> -1
               [] OTHER -> 0

\* [cos(rad), sin(rad), 0.0]
AngleVec(a) == <<CosDeg(a), SinDeg(a), 0>>

---------------------------------------------------------------------------
(* parse_direction *)

DirectionMap == [s \in {"x", "y", "z"} |->
                    CASE s = "x" -> <<1, 0, 0>>
                      [] s = "y" -> <<0, 1, 0>>
                      [] OTHER -> <<0, 0, 1>>]

\* direction.get(key, 0.0) on the dict's vals <<angle, h, k, l>>
DictGet(direction, key, i) == IF key \in direction.keys THEN direction.items[i] ELSE 0

IsZeroVector_never(vec) == FALSE

\* line 286: np.linalg.norm(vec) < 1e-10, on integer vectors
IsZeroVector(vec) == Dot(vec, vec) = 0

Parsed(vec) == [err |-> "", vec |-> vec]

ParseError(msg) == [err |-> msg, vec |-> <<>>]

\* lines 247-284: the vector before the zero check, or the exception
DirectionVector(direction) ==
    CASE direction.kind \in {"int", "float"} -> Parsed(AngleVec(direction.val))
      [] direction.kind = "str" ->
            IF direction.str \in NumericStrings
            THEN Parsed(AngleVec(FloatOfStr(direction.str)))
            ELSE IF Lower(direction.str) \notin DOMAIN DirectionMap
            THEN ParseError("ValueError: Unknown direction string")
            ELSE Parsed(DirectionMap[Lower(direction.str)])
      [] direction.kind \in {"list", "tuple", "ndarray"} ->
            IF Len(direction.items) = 1
            THEN Parsed(AngleVec(direction.items[1]))
            ELSE IF Len(direction.items) = 3
            THEN Parsed(direction.items)
            ELSE ParseError("ValueError: Direction vector must have 1 or 3 components")
      [] direction.kind = "dict" ->
            IF "angle" \in direction.keys
            THEN Parsed(AngleVec(direction.items[1]))
            ELSE Parsed(<<DictGet(direction, "h", 2), DictGet(direction, "k", 3),
                          DictGet(direction, "l", 4)>>)
      [] OTHER -> ParseError("ValueError: Unsupported direction format")

\* lines 239-288
parse_direction(direction) ==
    LET o == DirectionVector(direction)
    IN  IF o.err # "" THEN o
        ELSE IF IsZeroVector(o.vec)
        THEN ParseError("ValueError: Direction vector cannot be zero")
        ELSE o

\* psa.utils.helpers.parse_direction, which get_k_path calls: the direction
\* resolved to a unit vector, num / den, zero-length results rejected
helpers_parse_direction(direction_spec) ==
    LET o == parse_direction(direction_spec)
    IN  IF o.err # "" THEN [err |-> o.err, num |-> ZeroVec, den |-> 1]
        ELSE [err |-> "", num |-> o.vec, den |-> Norm(o.vec)]

---------------------------------------------------------------------------
(* SEDCalculator.get_k_path *)

NoLat == [some |-> FALSE, val |-> QZero]

Lat(q) == [some |-> TRUE, val |-> q]

UseLatParam_no_eps(lat_param) == lat_param.some

\* line 91, negated: lat_param is given and > 1e-6
UseLatParam(lat_param) == lat_param.some /\ ~LeEps(lat_param.val)

\* lines 94-99: |k_dir_unit . b_i|, in units of 2 pi
Projections(slf, k_dir_unit) ==
    LET b == <<slf.b1, slf.b2, slf.b3>>
    IN  [i \in 1..3 |-> Q(Abs(Dot(k_dir_unit.num, b[i].num)), k_dir_unit.den * b[i].den)]

\* lines 91-118: recip_extent in units of 2 pi and the message logged, or
\* the exception
RecipExtent(slf, k_dir_unit, lat_param) ==
    IF UseLatParam(lat_param)
    THEN [err |-> "", recip_extent |-> QInv(lat_param.val),
          log |-> "Using provided lattice parameter"]
    ELSE LET max_projection == QMax(Projections(slf, k_dir_unit))
             norm_a1 == Norm(slf.a1)
         IN  IF GtEps2Pi(max_projection)
             THEN [err |-> "", recip_extent |-> max_projection,
                   log |-> "Using directional reciprocal lattice projection"]
             ELSE IF ~LeEps(Q(norm_a1, 1))
             THEN [err |-> "", recip_extent |-> Q(1, norm_a1),
                   log |-> "Reciprocal projections too small, using |a1| fallback"]
             ELSE [err |-> "ValueError: Invalid/small lattice_param", recip_extent |-> QZero,
                   log |-> ""]

PathCountInvalid_negative(n_k) == n_k < 0

\* line 121
PathCountInvalid(n_k) == n_k < 1

\* line 123
PathMagnitudes(k_max_val, n_k) ==
    IF n_k > 1 THEN Linspace(QZero, k_max_val, n_k)
    ELSE <<IF IsCloseZero2Pi(k_max_val) THEN QZero ELSE k_max_val>>

\* line 124: np.outer(k_mags, k_dir_unit)
Outer(k_mags, k_dir_unit) ==
    [j \in 1..Len(k_mags) |->
        [i \in 1..3 |-> QMul(k_mags[j], Q(k_dir_unit.num[i], k_dir_unit.den))]]

\* no value is returned
NoValue == [kind |-> "none"]

Raised(msg, lg) == [err |-> msg, log |-> lg, result |-> NoValue]

\* lines 86-125: the exception, or (k_mags, k_vecs) and the messages logged
get_k_path(slf, direction_spec, bz_coverage, n_k, lat_param) ==
    LET k_dir_unit == helpers_parse_direction(direction_spec)
        e == RecipExtent(slf, k_dir_unit, lat_param)
        k_max_val == QMul(bz_coverage, e.recip_extent)
        k_mags == PathMagnitudes(k_max_val, n_k)
    IN  IF k_dir_unit.err # "" THEN Raised(k_dir_unit.err, {})
        ELSE IF e.err # "" THEN Raised(e.err, {})
        ELSE IF PathCountInvalid(n_k)
        THEN Raised("ValueError: n_k (k-points) must be >= 1.", {e.log})
        ELSE [err |-> "", log |-> {e.log},
              result |-> [kind |-> "k_path", k_mags |-> k_mags,
                          k_vecs |-> Outer(k_mags, k_dir_unit), shape |-> <<Len(k_mags)>>]]

---------------------------------------------------------------------------
(* SEDCalculator.get_k_grid *)

Planes == {"xy", "yz", "zx"}

\* lines 162, 166, 170: first runs over the first range, second over the second
PlaneVector(plane, first, second, k_fixed_val) ==
    CASE plane = "xy" -> <<first, second, k_fixed_val>>
      [] plane = "yz" -> <<k_fixed_val, first, second>>
      [] OTHER -> <<second, k_fixed_val, first>>

RECURSIVE GridLoop_column_major(_, _, _, _)
GridLoop_column_major(kx_vals, ky_vals, plane, k_fixed_val) ==
    IF Len(ky_vals) = 0 THEN <<>>
    ELSE [i \in 1..Len(kx_vals) |-> PlaneVector(plane, kx_vals[i], Head(ky_vals), k_fixed_val)]
         \o GridLoop_column_major(kx_vals, Tail(ky_vals), plane, k_fixed_val)

RECURSIVE GridLoop(_, _, _, _)
\* lines 160-170: the outer loop over kx_vals, the inner loop over ky_vals
GridLoop(kx_vals, ky_vals, plane, k_fixed_val) ==
    IF Len(kx_vals) = 0 THEN <<>>
    ELSE [j \in 1..Len(ky_vals) |-> PlaneVector(plane, Head(kx_vals), ky_vals[j], k_fixed_val)]
         \o GridLoop(Tail(kx_vals), ky_vals, plane, k_fixed_val)

\* line 152
GridCountInvalid(n_kx, n_ky) == n_kx <= 0 \/ n_ky <= 0

\* lines 152-180
get_k_grid(plane, k_range_x, k_range_y, n_kx, n_ky, k_fixed_val) ==
    LET kx_vals == Linspace(k_range_x[1], k_range_x[2], n_kx)
        ky_vals == Linspace(k_range_y[1], k_range_y[2], n_ky)
    IN  IF GridCountInvalid(n_kx, n_ky)
        THEN Raised("ValueError: Number of k-points (n_kx, n_ky) must be positive.", {})
        ELSE IF Lower(plane) \notin Planes
        THEN Raised("ValueError: Invalid plane specified", {})
        ELSE [err |-> "", log |-> {},
              result |-> [kind |-> "k_grid", k_mags |-> <<>>,
                          k_vecs |-> GridLoop(kx_vals, ky_vals, Lower(plane), k_fixed_val),
                          shape |-> <<n_kx, n_ky>>]]

---------------------------------------------------------------------------
(* SEDCalculator.calculate_chiral_phase.  A complex array is [shape, data] *)
(* with data in row-major order; its cells lie on the axes and diagonals   *)
(* of the complex plane, so every angle is a multiple of pi / 4 and the    *)
(* phases are integers in units of pi / 4.                                 *)

RECURSIVE Product(_)
Product(s) == IF Len(s) = 0 THEN 1 ELSE Head(s) * Product(Tail(s))

CArray(shape, data) == [shape |-> shape, data |-> data]

Size(arr) == Product(arr.shape)

\* np.angle(z) in units of pi / 4, in (-4, 4]
Angle(z) ==
    CASE z[2] = 0 -> IF z[1] >= 0 THEN 0 ELSE 4
      [] z[1] = 0 -> IF z[2] > 0 THEN 2 ELSE -2
      [] z[1] > 0 /\ z[2] > 0 -> 1
      [] z[1] < 0 /\ z[2] > 0 -> 3
      [] z[1] < 0 /\ z[2] < 0 -> -3
      [] OTHER -> -1

Wrap_half_pi(delta_p) == ((delta_p + 4) % 8) - 2

\* line 347: (delta_p + pi) % (2 pi) - pi
Wrap(delta_p) == ((delta_p + 4) % 8) - 4

FoldQ2_none(delta_p) == delta_p

\* line 348
FoldQ2(delta_p) == IF delta_p > 2 THEN 4 - delta_p ELSE delta_p

\* line 349
FoldQ3(delta_p) == IF delta_p < -2 THEN -4 - delta_p ELSE delta_p

\* lines 345-350, one cell
PhaseC(z1, z2) == FoldQ3(FoldQ2(Wrap(Angle(z1) - Angle(z2))))

\* np.arccos(c / sqrt(msq)) for the cosines 0, +-sqrt(1/2), +-1
ArcCos(c, msq) ==
    CASE c = 0 -> 2
      [] c > 0 -> IF c * c = msq THEN 0 ELSE 1
      [] OTHER -> IF c * c = msq THEN 4 ELSE 3

\* np.arcsin(s / sqrt(msq)) for the sines 0, +-sqrt(1/2), +-1
ArcSin(s, msq) ==
    CASE s = 0 -> 0
      [] s > 0 -> IF s * s = msq THEN 2 ELSE 1
      [] OTHER -> IF s * s = msq THEN -2 ELSE -1

\* only the first magnitude is tested
Negligible_first_only(z1, z2) == CAbs2(z1) = 0

\* line 359: m1sq < 1e-18 or m2sq < 1e-18, on integer cells
Negligible(z1, z2) == CAbs2(z1) = 0 \/ CAbs2(z2) = 0

\* lines 356-369, one cell
PhaseOther(z1, z2, angle_range_opt) ==
    IF Negligible(z1, z2) THEN 0
    ELSE CASE angle_range_opt = "A" ->
                ArcCos(z1[1] * z2[1] + z1[2] * z2[2], CAbs2(z1) * CAbs2(z2))
           [] angle_range_opt = "B" ->
                ArcSin(z1[1] * z2[2] - z1[2] * z2[1], CAbs2(z1) * CAbs2(z2))
           [] OTHER -> 0

\* line 368: the warning of an unknown mode, logged per non-negligible cell
UnknownModeLog(Z1, Z2, angle_range_opt) ==
    IF angle_range_opt \notin {"A", "B"}
       /\ \E c \in 1..Size(Z1) : ~Negligible(Z1.data[c], Z2.data[c])
    THEN {"Unknown angle_range_opt"} ELSE {}

ShapesDiffer_size_only(Z1, Z2) == Size(Z1) # Size(Z2)

\* line 339
ShapesDiffer(Z1, Z2) == Z1.shape # Z2.shape

Phase(shape, data) == [kind |-> "phase", shape |-> shape, data |-> data]

\* lines 338-371
calculate_chiral_phase(Z1, Z2, angle_range_opt) ==
    IF ShapesDiffer(Z1, Z2)
    THEN Raised("ValueError: Z1 and Z2 shapes must match for chiral phase.", {})
    ELSE IF Size(Z1) = 0
    THEN [err |-> "", log |-> {}, result |-> Phase(Z1.shape, <<>>)]
    ELSE IF angle_range_opt = "C"
    THEN [err |-> "", log |-> {},
          result |-> Phase(Z1.shape, [c \in 1..Size(Z1) |-> PhaseC(Z1.data[c], Z2.data[c])])]
    ELSE IF Len(Z1.shape) # 2
    THEN Raised("ValueError: not enough values to unpack", {})
    ELSE [err |-> "", log |-> UnknownModeLog(Z1, Z2, angle_range_opt),
          result |-> Phase(Z1.shape,
                           [c \in 1..Size(Z1) |->
                               PhaseOther(Z1.data[c], Z2.data[c], angle_range_opt)])]

---------------------------------------------------------------------------
(* The other operations of the calculator, each applied to its arguments   *)
(* in one step: args.method names the operation called.                    *)

PathCall(direction_spec, bz_coverage, n_k, lat_param) ==
    [method |-> "get_k_path", direction_spec |-> direction_spec,
     bz_coverage |-> bz_coverage, n_k |-> n_k, lat_param |-> lat_param]

GridCall(plane, k_range_x, k_range_y, n_kx, n_ky, k_fixed_val) ==
    [method |-> "get_k_grid", plane |-> plane, k_range_x |-> k_range_x,
     k_range_y |-> k_range_y, n_kx |-> n_kx, n_ky |-> n_ky, k_fixed_val |-> k_fixed_val]

ChiralCall(Z1, Z2, angle_range_opt) ==
    [method |-> "calculate_chiral_phase", Z1 |-> Z1, Z2 |-> Z2,
     angle_range_opt |-> angle_range_opt]

ParseCall(direction) == [method |-> "parse_direction", direction |-> direction]

\* the outcome o of a call: its value or its exception, and its log
Finish(o) ==
    /\ result' = o.result
    /\ err' = o.err
    /\ log' = log \cup o.log
    /\ pc' = IF o.err = "" THEN "returned" ELSE "raised"
    /\ UNCHANGED <<traj, ctor, self, args, mean_pos_all, freqs, atom_groups,
                   actual_k_chunk_size, num_chunks, i_chunk, is_complex_output,
                   full_sed_data, writes, recon>>

\* parse_direction(direction), a module-level function
ParseDirection ==
    /\ pc \in {"new", "ready"}
    /\ args.method = "parse_direction"
    /\ LET o == parse_direction(args.direction)
       IN  Finish([err |-> o.err, log |-> {},
                   result |-> IF o.err = "" THEN [kind |-> "direction", vec |-> o.vec]
                              ELSE NoValue])

GetKPath ==
    /\ pc = "ready"
    /\ args.method = "get_k_path"
    /\ Finish(get_k_path(self, args.direction_spec, args.bz_coverage, args.n_k,
                         args.lat_param))

GetKGrid ==
    /\ pc = "ready"
    /\ args.method = "get_k_grid"
    /\ Finish(get_k_grid(args.plane, args.k_range_x, args.k_range_y, args.n_kx,
                         args.n_ky, args.k_fixed_val))

CalculateChiralPhase ==
    /\ pc = "ready"
    /\ args.method = "calculate_chiral_phase"
    /\ Finish(calculate_chiral_phase(args.Z1, args.Z2, args.angle_range_opt))

NextMethods ==
    Construct \/ ParseDirection \/ GetKPath \/ GetKGrid \/ CalculateChiralPhase

---------------------------------------------------------------------------
(* Inputs of the other operations. *)

DirectionSpecs ==
    {DirNum("int", 0), DirNum("int", 180), DirNum("float", 90),
     DirStr("x"), DirStr("Y"), DirStr("z"), DirStr("q"), DirStr(""),
     DirStr("90"), DirStr("-90"),
     DirSeq("list", <<3, 4, 0>>), DirSeq("list", <<0, 0, 0>>), DirSeq("list", <<90>>),
     DirSeq("list", <<1, 2>>), DirSeq("list", <<>>),
     DirSeq("tuple", <<0, 0, -2>>), DirSeq("tuple", <<1, 0, 0, 0>>),
     DirSeq("ndarray", <<0, 3, 4>>), DirSeq("ndarray", <<0, 0, 0>>),
     DirDict({"angle"}, <<180, 0, 0, 0>>), DirDict({"angle", "h"}, <<90, 1, 0, 0>>),
     DirDict({"h"}, <<0, 2, 0, 0>>), DirDict({"k", "l"}, <<0, 0, 3, 4>>),
     DirDict({"k"}, <<0, 0, 0, 0>>), DirDict({}, <<0, 0, 0, 0>>),
     DirOther}

\* non-degenerate cells: cubic, left-handed, triclinic
PathCells ==
    {<<(<<1, 0, 0>>), (<<0, 1, 0>>), (<<0, 0, 1>>)>>,
     <<(<<0, 1, 0>>), (<<1, 0, 0>>), (<<0, 0, 1>>)>>,
     <<(<<2, 0, 0>>), (<<1, 2, 0>>), (<<0, 1, 1>>)>>}

\* a one-atom, one-frame trajectory in the cell repeated nx times
Geom(cell, nx) ==
    <<Trajectory(1, 1, <<1>>, <<(<<(<<4, 0, -4>>)>>)>>, Repeat(cell, nx, 1, 1), NoneOpt),
      Ctor(nx, 1, 1, FALSE, Some(2))>>

PathGeoms == {Geom(cell, nx) : cell \in PathCells, nx \in 1..MaxCell}

Coverages == {Q(0, 1), Q(1, 2), Q(2, 1)}

LatParams == {NoLat, Lat(Q(0, 1)), Lat(Q(1, 2000000)), Lat(Q(2, 1)), Lat(Q(-1, 1))}

PathCalls ==
    {PathCall(d, bz, n_k, lat) :
        d \in DirectionSpecs, bz \in Coverages, n_k \in -1..MaxK, lat \in LatParams}

PlaneNames == {"xy", "XY", "yz", "zx", "xz", ""}

GridCalls ==
    {GridCall(plane, rx, ry, n[1], n[2], fixed) :
        plane \in PlaneNames,
        rx \in {<<Q(-1, 1), Q(1, 1)>>, <<Q(0, 1), Q(1, 2)>>},
        ry \in {<<Q(-1, 1), Q(1, 1)>>, <<Q(2, 1), Q(2, 1)>>},
        n \in (-1..MaxK) \X (-1..MaxK),
        fixed \in {Q(0, 1), Q(1, 2)}}

\* complex values on the axes and diagonals
OctVals == {<<0, 0>>, <<1, 0>>, <<1, 1>>, <<0, 1>>, <<-1, 1>>,
            <<-1, 0>>, <<-1, -1>>, <<0, -1>>, <<1, -1>>}

SecondCells == {<<(<<0, -1>>), (<<1, 0>>)>>, <<(<<-1, 1>>), (<<-1, 1>>)>>}

\* pairs of arrays of the same shape
SameShapePairs ==
    {<<CArray(<<1, 1>>, <<z1>>), CArray(<<1, 1>>, <<z2>>)>> : z1 \in OctVals, z2 \in OctVals}
    \cup {<<CArray(s, <<z1, w[1]>>), CArray(s, <<z2, w[2]>>)>> :
             z1 \in OctVals, z2 \in OctVals, w \in SecondCells,
             s \in {<<1, 2>>, <<2, 1>>, <<2>>}}
    \cup {<<CArray(s, <<>>), CArray(s, <<>>)>> : s \in {<<0, 0>>, <<0, 2>>, <<2, 0>>, <<0>>}}

\* pairs of arrays of different shapes, of the same size or not
DifferentShapePairs ==
    {<<CArray(<<1, 2>>, <<(<<1, 0>>), (<<0, 1>>)>>), CArray(<<2, 1>>, <<(<<1, 0>>), (<<0, 1>>)>>)>>,
     <<CArray(<<1, 1>>, <<(<<1, 0>>)>>), CArray(<<1, 2>>, <<(<<1, 0>>), (<<0, 1>>)>>)>>,
     <<CArray(<<2>>, <<(<<1, 0>>), (<<0, 1>>)>>), CArray(<<1, 2>>, <<(<<1, 0>>), (<<0, 1>>)>>)>>,
     <<CArray(<<0, 0>>, <<>>), CArray(<<0, 2>>, <<>>)>>,
     <<CArray(<<0, 2>>, <<>>), CArray(<<1, 1>>, <<(<<1, 0>>)>>)>>}

Modes == {"C", "A", "B", "X"}

ChiralCalls ==
    {ChiralCall(zz[1], zz[2], m) : zz \in SameShapePairs \cup DifferentShapePairs, m \in Modes}

ParseCalls == {ParseCall(d) : d \in DirectionSpecs}

MethodInputs ==
    {<<g[1], g[2], c>> : g \in PathGeoms, c \in PathCalls}
    \cup {<<g[1], g[2], c>> : g \in {Geom(UnitBox, 1)},
                              c \in GridCalls \cup ChiralCalls \cup ParseCalls}

InitMethods == \E x \in MethodInputs : InitWith({x[1]}, {x[2]}, {x[3]})

SpecMethods == InitMethods /\ [][NextMethods]_vars

---------------------------------------------------------------------------
(* SEDCalculator.calculate as a function of its arguments, as ised calls   *)
(* it: the exception, or the SED returned and the warnings.                *)

\* lines 287-327: the array after the chunk loop; column k (1-based) is
\* written by the chunk that holds it
ChunkLoop(tr, use_displacements, k_vectors_3d, groups, is_complex, mean_pos, nf, chunk_size) ==
    LET num_k_vectors == Len(k_vectors_3d)
        n_chunks == NumChunks(num_k_vectors, chunk_size)
        chunk_of(k) == (k - 1) \div chunk_size
        start_idx(k) == ChunkStart(chunk_of(k), chunk_size)
        final_group_indices == FinalGroupIndices(groups)
        chunk_data_of(i) ==
            LET current_k_vectors_chunk ==
                    SubSeq(k_vectors_3d, ChunkStart(i, chunk_size) + 1,
                           ChunkEnd(i, chunk_size, num_k_vectors))
            IN  IF is_complex
                THEN calculate_sed_for_group(tr, use_displacements,
                         current_k_vectors_chunk, final_group_indices, mean_pos)
                ELSE SummedIntensityChunk(tr, use_displacements,
                         current_k_vectors_chunk, groups, mean_pos, nf)
        chunks == [i \in 0..(n_chunks - 1) |-> chunk_data_of(i)]
        chunk_data(k) == chunks[chunk_of(k)]
        written(k) == /\ chunk_of(k) < n_chunks
                      /\ is_complex => Len(final_group_indices) > 0
        zeros == Allocate(is_complex, nf, num_k_vectors)
    IN  [zeros EXCEPT !.data =
            [w \in 1..nf |-> [k \in 1..num_k_vectors |->
                IF written(k) THEN chunk_data(k)[w][k - start_idx(k)]
                ELSE zeros.data[w][k]]]]

\* lines 182-336
calculate(slf, tr, use_displacements, k_vectors_3d, basis_atom_indices, basis_atom_types, summation_mode, k_chunk_size) ==
    LET g == ResolveGroups(tr, basis_atom_indices, basis_atom_types, summation_mode)
        num_k_vectors == Len(k_vectors_3d)
        fr == FftFreq(tr.n_frames, slf.dt_ps)
        is_complex == IsComplexOutput(summation_mode, g.groups)
    IN  IF ~ValidMode(summation_mode)
        THEN [err |-> "ValueError: summation_mode", log |-> {}, result |-> NoSED]
        ELSE IF Degenerate(tr.n_frames, tr.n_atoms)
        THEN [err |-> "", log |-> {"0 frames or 0 atoms"},
              result |-> EarlyReturn(k_vectors_3d).result]
        ELSE IF g.err # ""
        THEN [err |-> g.err, log |-> g.log, result |-> NoSED]
        ELSE [err |-> "",
              log |-> g.log \cup
                      (IF num_k_vectors = 0 THEN {"k_vectors_3d is empty"} ELSE {}),
              result |-> SED(ChunkLoop(tr, use_displacements, k_vectors_3d, g.groups,
                                       is_complex, MeanPositions(tr), Len(fr),
                                       ActualChunkSize(k_chunk_size, num_k_vectors)),
                             fr, k_vectors_3d, is_complex)]

---------------------------------------------------------------------------
(* SEDCalculator.ised: the atom groups of the reconstruction *)

\* "x and len(x) > 0" of a selector that is None or a list
Given(sel) == sel.kind = "list" /\ Len(sel.items) > 0

\* isinstance(x[0], list)
FirstIsList(sel) == sel.items[1].kind = "list"

\* lines 391-405: the index groups in the order given, empty ones dropped,
\* or the exception of an index out of bounds
IndexGroupsIsed(basis_atom_idx_ised, n_atoms_total) ==
    LET asked == IF FirstIsList(basis_atom_idx_ised)
                 THEN [i \in 1..Len(basis_atom_idx_ised.items) |->
                          Ints(basis_atom_idx_ised.items[i])]
                 ELSE <<Ints(basis_atom_idx_ised)>>
    IN  IF \E i \in 1..Len(asked) : OutOfBounds(asked[i], n_atoms_total)
        THEN [err |-> "ValueError: Atom indices out of bounds.", log |-> {},
              groups |-> <<>>]
        ELSE [err |-> "", log |-> {}, groups |-> SelectSeq(asked, NonEmpty)]

\* lines 409-426: one group per sub-list of types, or one group per type of
\* a flat list; the groups without atoms are dropped with a warning
TypeGroupsIsed(basis_atom_types_ised, sys_atom_types) ==
    LET asked == IF FirstIsList(basis_atom_types_ised)
                 THEN [i \in 1..Len(basis_atom_types_ised.items) |->
                          Ints(basis_atom_types_ised.items[i])]
                 ELSE [i \in 1..Len(basis_atom_types_ised.items) |->
                          <<basis_atom_types_ised.items[i].val>>]
        found == [i \in 1..Len(asked) |-> WhereIsin(sys_atom_types, asked[i])]
    IN  [err |-> "",
         log |-> IF \E i \in 1..Len(found) : Len(found[i]) = 0
                 THEN {"No atoms for type group in iSED"} ELSE {},
         groups |-> SelectSeq(found, NonEmpty)]

\* lines 390 and 408: the index branch is taken whenever indices are given
IndicesFirst(basis_atom_idx_ised, basis_atom_types_ised) == Given(basis_atom_idx_ised)

\* lines 389-429: recon_atom_groups, the warnings and the exception if any
ReconAtomGroups(tr, basis_atom_idx_ised, basis_atom_types_ised) ==
    IF IndicesFirst(basis_atom_idx_ised, basis_atom_types_ised)
    THEN LET g == IndexGroupsIsed(basis_atom_idx_ised, tr.n_atoms)
         IN  [g EXCEPT !.log = IF g.err = "" /\ Given(basis_atom_types_ised)
                                THEN {"iSED: atom_indices and atom_types provided"}
                                ELSE {}]
    ELSE IF Given(basis_atom_types_ised)
    THEN TypeGroupsIsed(basis_atom_types_ised, tr.types)
    ELSE [err |-> "", log |-> {}, groups |-> <<Arange(tr.n_atoms)>>]

---------------------------------------------------------------------------
(* SEDCalculator.ised: nearest bins, reconstruction and rescaling.  The    *)
(* wiggles are rationals; k magnitudes are in units of 2 pi per unit       *)
(* length and multiples of 1/4, the projected mean positions are integers  *)
(* and the synthetic frame count divides 4, so that every factor           *)
(* exp(i t - i k r) is a power of i.                                       *)

IsedCall(k_dir_spec, k_target, w_target, char_len_k_path, nk_on_path, bz_cov_ised, basis_atom_idx_ised, basis_atom_types_ised, rescale_factor, n_recon_frames) ==
    [method |-> "ised", k_dir_spec |-> k_dir_spec, k_target |-> k_target,
     w_target |-> w_target, char_len_k_path |-> char_len_k_path,
     nk_on_path |-> nk_on_path, bz_cov_ised |-> bz_cov_ised,
     basis_atom_idx_ised |-> basis_atom_idx_ised,
     basis_atom_types_ised |-> basis_atom_types_ised,
     rescale_factor |-> rescale_factor, n_recon_frames |-> n_recon_frames]

\* a rescale_factor: a number, or a string
Factor(q) == [kind |-> "float", val |-> q, str |-> ""]

FactorStr(s) == [kind |-> "str", val |-> QZero, str |-> s]

\* |x - y|
QAbsDiff(x, y) == <<Abs(x[1] * y[2] - y[1] * x[2]), x[2] * y[2]>>

\* an argmin that keeps the last of several smallest entries
ArgMin_last(ds) ==
    CHOOSE i \in 0..(Len(ds) - 1) :
        /\ \A j \in 1..Len(ds) : QLe(ds[i + 1], ds[j])
        /\ \A j \in (i + 2)..Len(ds) : ~QLe(ds[j], ds[i + 1])

\* np.argmin: the 0-based index of the first smallest entry
ArgMin(ds) ==
    CHOOSE i \in 0..(Len(ds) - 1) :
        /\ \A j \in 1..Len(ds) : QLe(ds[i + 1], ds[j])
        /\ \A j \in 1..i : ~QLe(ds[j], ds[i + 1])

\* lines 443 and 483: np.argmin(np.abs(xs - target))
MatchIdx(xs, target) == ArgMin([i \in 1..Len(xs) |-> QAbsDiff(xs[i], target)])

\* the k-vectors of the path in the units of calculate, pi/2 per unit length
QuarterTurns(k_vecs) ==
    [j \in 1..Len(k_vecs) |-> [i \in 1..3 |-> (4 * k_vecs[j][i][1]) \div k_vecs[j][i][2]]]

\* the unit vector returned by parse_direction, handed on as an array
UnitArray(k_dir_unit) == DirSeq("ndarray", VDiv(k_dir_unit.num, k_dir_unit.den))

\* line 441: np.dot(avg_pos, k_dir_unit)
PosProj(avg_pos, k_dir_unit) ==
    [a \in 1..Len(avg_pos) |-> Dot(avg_pos[a], k_dir_unit.num) \div k_dir_unit.den]

\* line 439
ZeroWiggles(n_recon_frames, n_atoms_total) ==
    [t \in 1..n_recon_frames |-> [a \in 1..n_atoms_total |-> [p \in 1..3 |-> QZero]]]

\* line 498: Re(amp exp(i time_p[t] - i k_actual r)), t 1-based, as an integer
ReconMotion(amp, t, n_recon_frames, k_actual, r_proj) ==
    CMul(amp, CUnit(((4 * (t - 1)) \div n_recon_frames)
                    - ((4 * k_actual[1] * r_proj) \div k_actual[2])))[1]

\* the contribution of a group is subtracted
AddMotion_subtract(wiggles, grp_atom_idx, amps, k_actual, pos_proj_k_dir) ==
    [t \in 1..Len(wiggles) |-> [a \in 1..Len(wiggles[t]) |-> [p \in 1..3 |->
        IF (a - 1) \in Range(grp_atom_idx)
        THEN QSub(wiggles[t][a][p],
                  Q(ReconMotion(amps[p], t, Len(wiggles), k_actual, pos_proj_k_dir[a]), 1))
        ELSE wiggles[t][a][p]]]]

\* lines 494-499: wiggles[:, grp_atom_idx, pol_ax] += recon_motion_comp; an
\* atom listed several times in the group takes the assignment of its last
\* occurrence
AddMotion(wiggles, grp_atom_idx, amps, k_actual, pos_proj_k_dir) ==
    [t \in 1..Len(wiggles) |-> [a \in 1..Len(wiggles[t]) |-> [p \in 1..3 |->
        LET js == {j \in 1..Len(grp_atom_idx) : grp_atom_idx[j] = a - 1}
            last == CHOOSE j \in js : \A i \in js : i <= j
        IN  IF js = {} THEN wiggles[t][a][p]
            ELSE QAdd(wiggles[t][a][p],
                      Q(ReconMotion(amps[p], t, Len(wiggles), k_actual,
                                    pos_proj_k_dir[grp_atom_idx[last] + 1]), 1))]]]

\* line 503: np.abs(wiggles[:, grp_atom_idx, :3]), as a set
AbsValues(wiggles, grp_atom_idx) ==
    {<<Abs(wiggles[t][grp_atom_idx[j] + 1][p][1]), wiggles[t][grp_atom_idx[j] + 1][p][2]>> :
        t \in 1..Len(wiggles), j \in 1..Len(grp_atom_idx), p \in 1..3}

\* np.amax of a non-empty set of rationals
AMax(S) == CHOOSE m \in S : \A x \in S : QLe(x, m)

\* line 506: positions[:, grp, :] - avg_pos[None, grp, :], flattened
OrigDisp(tr, avg_pos, grp_atom_idx) ==
    LET n_grp == Len(grp_atom_idx)
    IN  [e \in 1..(tr.n_frames * n_grp * 3) |->
            LET t == ((e - 1) \div (3 * n_grp)) + 1
                j == (((e - 1) \div 3) % n_grp) + 1
                c == ((e - 1) % 3) + 1
            IN  tr.positions[t][grp_atom_idx[j] + 1][c] - avg_pos[grp_atom_idx[j] + 1][c]]

\* np.std of a non-empty sequence of integers whose variance is the square
\* of a rational: sqrt(N sum(x^2) - sum(x)^2) / N
Std(xs) ==
    LET n == Len(xs)
        s1 == SumInts(xs)
        s2 == SumInts([i \in 1..n |-> xs[i] * xs[i]])
    IN  Q(ISqrt(n * s2 - s1 * s1), n)

\* the epsilon 1e-9 of the rescaling is 1 / TinyInv
TinyInv == 1000000000

\* x > 1e-9 for a non-negative rational x
GtTiny(x) == x[1] > x[2] \div TinyInv

\* line 502
IsAuto(rescale_factor) == rescale_factor.kind = "str" /\ Lower(rescale_factor.str) = "auto"

\* line 527
IsNumber(rescale_factor) == rescale_factor.kind \in {"int", "float"}

\* line 515
AllReconIdx(recon_atom_groups) ==
    IF \E i \in 1..Len(recon_atom_groups) : Len(recon_atom_groups[i]) > 0
    THEN Unique(Concatenate(recon_atom_groups)) ELSE <<>>

\* lines 519-526: the factor applied in auto mode
AutoFactor(max_wiggle_amp_all, std_dev_sum, n_atoms_recon_sum) ==
    LET avg_std_dev_disp == IF n_atoms_recon_sum > 0
                            THEN QMul(std_dev_sum, Q(1, n_atoms_recon_sum)) ELSE QZero
    IN  IF ~GtTiny(max_wiggle_amp_all) THEN Q(1, 1)
        ELSE IF GtTiny(avg_std_dev_disp)
        THEN QMul(QInv(max_wiggle_amp_all), avg_std_dev_disp)
        ELSE QInv(max_wiggle_amp_all)

\* a numeric factor is ignored
NumberFactor_ignored(rescale_factor) == Q(1, 1)

\* line 528
NumberFactor(rescale_factor) == rescale_factor.val

\* lines 517-531: wiggles[:, all_recon_idx, :3] scaled in place
Rescaled(wiggles, all_recon_idx, rescale_factor, max_wiggle_amp_all, std_dev_sum, n_atoms_recon_sum) ==
    LET f == IF IsAuto(rescale_factor)
             THEN AutoFactor(max_wiggle_amp_all, std_dev_sum, n_atoms_recon_sum)
             ELSE IF IsNumber(rescale_factor) THEN NumberFactor(rescale_factor)
             ELSE Q(1, 1)
    IN  [t \in 1..Len(wiggles) |-> [a \in 1..Len(wiggles[t]) |-> [p \in 1..3 |->
            IF (a - 1) \in Range(all_recon_idx) THEN QMul(wiggles[t][a][p], f)
            ELSE wiggles[t][a][p]]]]

\* lines 524, 526, 529, 531: what the rescaling logs
RescaleLog(all_recon_idx, rescale_factor, max_wiggle_amp_all) ==
    IF Len(all_recon_idx) = 0 THEN {"iSED: No atoms reconstructed, skipping rescaling."}
    ELSE IF IsAuto(rescale_factor)
    THEN IF GtTiny(max_wiggle_amp_all) THEN {"iSED: Auto-rescaled."}
         ELSE {"iSED: Max wiggle amp near zero. Auto-rescaling ineffective."}
    ELSE IF IsNumber(rescale_factor) THEN {"iSED: Rescaled wiggles by factor."}
    ELSE {}

\* line 533: avg_pos[None, :, :] + wiggles[:, :, :3]
FinalPosDump(avg_pos, wiggles) ==
    [t \in 1..Len(wiggles) |-> [a \in 1..Len(wiggles[t]) |-> [p \in 1..3 |->
        QAdd(Q(avg_pos[a][p], 1), wiggles[t][a][p])]]]

\* line 537: the arguments of out_to_qdump
Dump(positions, types, box_matrix) ==
    [kind |-> "dump", positions |-> positions, types |-> types, box_matrix |-> box_matrix]

---------------------------------------------------------------------------
(* SEDCalculator.ised in three parts: the entry up to the k match, one     *)
(* pass of the group loop, and the rescaling and dump.  Each part gives    *)
(* the locals it leaves, what it logs, and whether ised ends there: by an  *)
(* exception, by returning None (result NoValue), or with the dump.        *)

Ends(msg, lg, res, rc) ==
    [ended |-> TRUE, err |-> msg, log |-> lg, result |-> res, recon |-> rc]

Continues(lg, rc) ==
    [ended |-> FALSE, err |-> "", log |-> lg, result |-> NoValue, recon |-> rc]

\* lines 383-449
IsedEntry(slf, tr, a) ==
    LET avg_pos == MeanPositions(tr)
        k_dir_unit == helpers_parse_direction(a.k_dir_spec)
        g == ReconAtomGroups(tr, a.basis_atom_idx_ised, a.basis_atom_types_ised)
        path == get_k_path(slf, UnitArray(k_dir_unit), a.bz_cov_ised, a.nk_on_path,
                           Lat(a.char_len_k_path))
        k_match_idx == MatchIdx(path.result.k_mags, a.k_target)
    IN  IF k_dir_unit.err # "" THEN Ends(k_dir_unit.err, {}, NoValue, NoRecon)
        ELSE IF g.err # "" THEN Ends(g.err, g.log, NoValue, NoRecon)
        ELSE IF Len(g.groups) = 0
        THEN Ends("", g.log \cup {"iSED: No atom groups for reconstruction. Aborting."},
                  NoValue, NoRecon)
        ELSE IF path.err # "" THEN Ends(path.err, g.log \cup path.log, NoValue, NoRecon)
        ELSE Continues(g.log \cup path.log,
                 [avg_pos |-> avg_pos,
                  recon_atom_groups |-> g.groups,
                  k_mags_ised |-> path.result.k_mags,
                  k_vecs_ised |-> path.result.k_vecs,
                  pos_proj_k_dir |-> PosProj(avg_pos, k_dir_unit),
                  k_match_idx |-> k_match_idx,
                  k_actual |-> path.result.k_mags[k_match_idx + 1],
                  i_grp |-> 0,
                  w_match_idx |-> 0,
                  wiggles |-> ZeroWiggles(a.n_recon_frames, tr.n_atoms),
                  recon_done |-> FALSE,
                  max_wiggle_amp_all |-> QZero,
                  std_dev_sum |-> QZero,
                  n_atoms_recon_sum |-> 0])

\* lines 451-508: one pass of the loop over recon_atom_groups
IsedGroupPass(slf, tr, use_displacements, a, rc) ==
    LET grp_atom_idx == rc.recon_atom_groups[rc.i_grp + 1]
        c == calculate(slf, tr, use_displacements, QuarterTurns(rc.k_vecs_ised),
                       Array1D(grp_atom_idx), PyNone, "coherent", 500)
        sed_group_data == c.result.sed.data
        freqs_group == c.result.freqs
        w_match_idx == MatchIdx(freqs_group, a.w_target)
        amps == sed_group_data[w_match_idx + 1][rc.k_match_idx + 1]
        wiggles == AddMotion(rc.wiggles, grp_atom_idx, amps, rc.k_actual,
                             rc.pos_proj_k_dir)
        values == AbsValues(wiggles, grp_atom_idx)
        std_dev == Std(OrigDisp(tr, rc.avg_pos, grp_atom_idx))
    IN  IF Len(grp_atom_idx) = 0
        THEN Continues({}, [rc EXCEPT !.i_grp = @ + 1])
        ELSE IF c.err # "" THEN Ends(c.err, c.log, NoValue, rc)
        ELSE IF Len(freqs_group) = 0
        THEN Ends("ValueError: attempt to get argmin of an empty sequence", c.log,
                  NoValue, rc)
        ELSE IF ~IsAuto(a.rescale_factor)
        THEN Continues(c.log, [rc EXCEPT !.i_grp = @ + 1,
                                         !.w_match_idx = w_match_idx,
                                         !.wiggles = wiggles,
                                         !.recon_done = TRUE])
        ELSE IF values = {}
        THEN Ends("ValueError: zero-size array to reduction operation maximum", c.log,
                  NoValue, rc)
        ELSE Continues(c.log,
                 [rc EXCEPT !.i_grp = @ + 1,
                            !.w_match_idx = w_match_idx,
                            !.wiggles = wiggles,
                            !.recon_done = TRUE,
                            !.max_wiggle_amp_all = QMax(<<@, AMax(values)>>),
                            !.std_dev_sum = QAdd(@, QMul(std_dev, Q(Len(grp_atom_idx), 1))),
                            !.n_atoms_recon_sum = @ + Len(grp_atom_idx)])

\* lines 510-538
IsedDump(tr, a, rc) ==
    LET all_recon_idx == AllReconIdx(rc.recon_atom_groups)
        wiggles == Rescaled(rc.wiggles, all_recon_idx, a.rescale_factor,
                            rc.max_wiggle_amp_all, rc.std_dev_sum, rc.n_atoms_recon_sum)
    IN  IF ~rc.recon_done
        THEN Ends("", {"iSED: No reconstruction performed (empty atom groups?)."},
                  NoValue, rc)
        ELSE IF a.n_recon_frames = 0
        THEN Ends("IndexError: index 0 is out of bounds for axis 0 with size 0", {},
                  NoValue, rc)
        ELSE Ends("", RescaleLog(all_recon_idx, a.rescale_factor, rc.max_wiggle_amp_all),
                  Dump(FinalPosDump(rc.avg_pos, wiggles), tr.types, tr.box_matrix),
                  [rc EXCEPT !.wiggles = wiggles])

RECURSIVE IsedLoop(_, _, _, _, _)
\* the loop and what follows it, from the locals rc
IsedLoop(slf, tr, use_displacements, a, rc) ==
    IF rc.i_grp = Len(rc.recon_atom_groups) THEN IsedDump(tr, a, rc)
    ELSE LET o == IsedGroupPass(slf, tr, use_displacements, a, rc)
         IN  IF o.ended THEN o ELSE IsedLoop(slf, tr, use_displacements, a, o.recon)

\* lines 373-538: ised from its arguments
ised(slf, tr, use_displacements, a) ==
    LET o == IsedEntry(slf, tr, a)
    IN  IF o.ended THEN o ELSE IsedLoop(slf, tr, use_displacements, a, o.recon)

\* one part of ised takes effect
IsedStep(o) ==
    /\ pc' = IF ~o.ended THEN "ised_loop"
             ELSE IF o.err = "" THEN "returned" ELSE "raised"
    /\ err' = o.err
    /\ log' = log \cup o.log
    /\ result' = IF o.ended THEN o.result ELSE result
    /\ recon' = o.recon
    /\ UNCHANGED <<traj, ctor, self, args, mean_pos_all, freqs, atom_groups,
                   actual_k_chunk_size, num_chunks, i_chunk, is_complex_output,
                   full_sed_data, writes>>

IsedEnter ==
    /\ pc = "ready"
    /\ args.method = "ised"
    /\ IsedStep(IsedEntry(self, traj, args))

IsedGroup ==
    /\ pc = "ised_loop"
    /\ recon.i_grp < Len(recon.recon_atom_groups)
    /\ IsedStep(IsedGroupPass(self, traj, ctor.use_displacements, args, recon))

IsedFinish ==
    /\ pc = "ised_loop"
    /\ recon.i_grp = Len(recon.recon_atom_groups)
    /\ IsedStep(IsedDump(traj, args, recon))

NextIsed == Construct \/ IsedEnter \/ IsedGroup \/ IsedFinish

---------------------------------------------------------------------------
(* Inputs of ised.  The atoms move with amplitude 4 or 28 along every      *)
(* axis, so that the standard deviation of the displacements of every      *)
(* group of one or two atoms is an integer: 4, 28, or 20 for one of each.  *)

IsedVel(a) == IF a % 2 = 1 THEN <<4, 4, -4>> ELSE <<28, -28, 28>>

\* the same velocities in every frame, types 1, 2, 1, ...
IsedTrajectories(frames, atoms) ==
    {Trajectory(n_t, n_a, AlternatingTypes(n_a),
                [t \in 1..n_t |-> [a \in 1..n_a |-> IsedVel(a)]], UnitBox, Some(1)) :
        n_t \in frames, n_a \in atoms}

\* a path of nk points from 0 to 3/2, in units of 2 pi
IsedPathCall(dir, k_target, w_target, nk, idx, types, rescale, n_recon) ==
    IsedCall(dir, k_target, w_target, Q(2, 1), nk, Q(3, 1), idx, types, rescale, n_recon)

IsedIndexSelectors ==
    {PyNone, FlatList(<<>>), FlatList(<<0>>), FlatList(<<1>>), FlatList(<<0, 0>>),
     FlatList(<<0, 1>>), FlatList(<<2>>), FlatList(<<-1>>),
     NestedList(<<(<<0>>), (<<1>>)>>), NestedList(<<(<<0>>), (<<0, 1>>)>>),
     NestedList(<<(<<>>)>>), NestedList(<<(<<>>), (<<0>>)>>),
     NestedList(<<(<<0>>), (<<2>>)>>)}

IsedTypeSelectors ==
    {PyNone, FlatList(<<>>), FlatList(<<1>>), FlatList(<<1, 2>>), FlatList(<<2, 1>>),
     FlatList(<<3>>), NestedList(<<(<<1, 2>>)>>), NestedList(<<(<<1>>), (<<2>>)>>),
     NestedList(<<(<<3>>)>>), NestedList(<<(<<3>>), (<<1>>)>>)}

\* grouping: every pair of selectors on 0, 1 and 2 atoms
IsedSelInputs ==
    {<<tr, Ctor(1, 1, 1, FALSE, NoneOpt),
       IsedPathCall(DirStr("x"), Q(0, 1), Q(0, 1), 2, idx, types, Factor(Q(1, 1)), 1)>> :
        tr \in IsedTrajectories({1}, 0..2),
        idx \in IsedIndexSelectors, types \in IsedTypeSelectors}

IsedDirections == {DirStr("x"), DirStr("z"), DirSeq("tuple", <<0, 0, -2>>), DirStr("q")}

KTargets == {Q(0, 1), Q(3, 8), Q(1, 1), Q(5, 1)}

WTargets == {Q(0, 1), Q(-1, 4), Q(-1, 1), Q(1, 1)}

\* matching: every target on every path, on one and two groups
IsedMatchInputs ==
    {<<tr, Ctor(1, 1, 1, ud, NoneOpt),
       IsedPathCall(dir, kt, wt, nk, sel, PyNone, Factor(Q(1, 1)), 1)>> :
        tr \in IsedTrajectories({1, 2}, {2}), ud \in BOOLEAN, dir \in IsedDirections,
        kt \in KTargets, wt \in WTargets, nk \in 0..MaxK,
        sel \in {PyNone, NestedList(<<(<<1>>), (<<0>>)>>)}}

RescaleFactors ==
    {Factor(Q(1, 1)), Factor(Q(2, 1)), FactorStr("auto"), FactorStr("AUTO"),
     FactorStr("none")}

IsedGroupSelectors ==
    {<<PyNone, PyNone>>, <<FlatList(<<0>>), PyNone>>, <<FlatList(<<1>>), PyNone>>,
     <<FlatList(<<0, 0>>), PyNone>>,
     <<NestedList(<<(<<0>>), (<<1>>)>>), PyNone>>,
     <<NestedList(<<(<<0>>), (<<0, 1>>)>>), PyNone>>,
     <<NestedList(<<(<<0, 1>>), (<<0>>)>>), PyNone>>,
     <<NestedList(<<(<<0>>), (<<0>>)>>), PyNone>>,
     <<PyNone, FlatList(<<2>>)>>, <<PyNone, FlatList(<<1, 2>>)>>}

\* accumulation and rescaling: overlapping groups under every rescale setting
IsedRescaleInputs ==
    {<<tr, Ctor(1, 1, 1, ud, NoneOpt),
       IsedPathCall(DirStr("x"), Q(1, 1), wt, 3, sel[1], sel[2], f, n_recon)>> :
        tr \in IsedTrajectories({1, 2}, {2}), ud \in BOOLEAN,
        wt \in {Q(0, 1), Q(-1, 1)},
        sel \in IsedGroupSelectors, f \in RescaleFactors, n_recon \in FrameCounts}

\* two atoms moving against each other with amplitudes 17 and 31 (standard
\* deviations 17, 31 and 25): what the group [0, 1] adds to atom 0 is
\* opposite to what the group [0] added
OpposedTrajectory ==
    Trajectory(2, 2, AlternatingTypes(2),
               [t \in 1..2 |-> <<(<<17, 17, -17>>), (<<-31, -31, 31>>)>>], UnitBox, Some(1))

\* overlapping groups whose contributions partly cancel, at k = 0 and w = 0
IsedOpposedInputs ==
    {<<OpposedTrajectory, Ctor(1, 1, 1, FALSE, NoneOpt),
       IsedPathCall(DirStr("x"), Q(0, 1), Q(0, 1), 3, sel, PyNone, f, n_recon)>> :
        sel \in {NestedList(<<(<<0>>), (<<0, 1>>)>>), NestedList(<<(<<0, 1>>), (<<0>>)>>)},
        f \in RescaleFactors, n_recon \in FrameCounts}

IsedInputs ==
    IsedSelInputs \cup IsedMatchInputs \cup IsedRescaleInputs \cup IsedOpposedInputs

InitIsed == \E x \in IsedInputs : InitWith({x[1]}, {x[2]}, {x[3]})

SpecIsed == InitIsed /\ [][NextIsed]_vars

---------------------------------------------------------------------------
(* Inputs for the frequency axis: every frame count up to 4 whose DFT is   *)
(* exact, two timesteps, both summation modes.                             *)

AxisFrameCounts == {n \in 0..(2 * MaxFrames) : n \in {0, 1, 2, 4}}

AxisTrajectories ==
    {Trajectory(n_t, n_a, AlternatingTypes(n_a),
                [t \in 1..n_t |-> [a \in 1..n_a |-> IsedVel(a)]], UnitBox, Some(d)) :
        n_t \in AxisFrameCounts, n_a \in 1..MaxAtoms, d \in 1..2}

AxisCalls ==
    {Call(kv, sel, PyNone, m, c) :
        kv \in {<<K0>>, <<K0, K1>>},
        sel \in {PyNone, NestedList(<<(<<0>>), (<<1>>)>>)},
        m \in {"coherent", "incoherent"}, c \in {1, 500}}

InitAxis == InitWith(AxisTrajectories, BothCtors, AxisCalls)

SpecAxis == InitAxis /\ [][Next]_vars

---------------------------------------------------------------------------
(* SDCalculator of SDA.py: the constructor and calculate_sd, the transform *)
(* over all atoms.  The constructor arguments are nx, ny, nz, dt_ps and    *)
(* use_velocities.                                                         *)

SdCtor(nx, ny, nz, dt_ps, use_velocities) ==
    [nx |-> nx, ny |-> ny, nz |-> nz, dt_ps |-> dt_ps, use_velocities |-> use_velocities]

SdCall(k_points, k_vectors) ==
    [method |-> "calculate_sd", k_points |-> k_points, k_vectors |-> k_vectors]

\* SDA.py lines 305-308: the columns of the box matrix over the repeat counts
SdPrimitiveVectors(box, nx, ny, nz) ==
    <<VDiv(<<box[1][1], box[2][1], box[3][1]>>, nx),
      VDiv(<<box[1][2], box[2][2], box[3][2]>>, ny),
      VDiv(<<box[1][3], box[2][3], box[3][3]>>, nz)>>

\* SDA.py lines 299-314, for a cell of non-zero volume
SdConstructOutcome(tr, c) ==
    IF ~DimsPositive(c.nx, c.ny, c.nz)
    THEN [err |-> "ValueError: System size dimensions must be positive integers",
          log |-> {}, self |-> NoSelf]
    ELSE LET a == SdPrimitiveVectors(tr.box_matrix, c.nx, c.ny, c.nz)
             volume == Det(a)
         IN  [err |-> "", log |-> {},
              self |-> [a1 |-> a[1], a2 |-> a[2], a3 |-> a[3],
                        b1 |-> [num |-> Cross(a[2], a[3]), den |-> volume],
                        b2 |-> [num |-> Cross(a[3], a[1]), den |-> volume],
                        b3 |-> [num |-> Cross(a[1], a[2]), den |-> volume],
                        dt_ps |-> c.dt_ps]]

\* SDA.py lines 335-355, for at least one frame: the (frame x k_points x 3)
\* array np.fft.fft(sed, axis=0) and the frequencies; a k-vector beyond the
\* k_points has no column to go to
calculate_sd(slf, tr, use_velocities, k_points, k_vectors) ==
    LET n_t == tr.n_frames
        mean_positions == MeanPositions(tr)
        sed(k, alpha) == [t \in 1..n_t |->
            IF k <= Len(k_vectors)
            THEN SpatialSum(tr, ~use_velocities, mean_positions, Arange(tr.n_atoms),
                            k_vectors[k], t, alpha)
            ELSE CZero]
        lg == {IF use_velocities THEN "Using velocities for SD calculation."
               ELSE "Using displacements for SD calculation."}
    IN  IF Len(k_vectors) > Len(k_points)
        THEN [err |-> "IndexError: index is out of bounds for axis 1", log |-> lg,
              result |-> NoValue]
        ELSE [err |-> "", log |-> lg,
              result |-> [kind |-> "sd",
                          sed_w |-> [w \in 1..n_t |-> [k \in 1..Len(k_points) |->
                                        [alpha \in 1..3 |-> Fft(sed(k, alpha), w)]]],
                          freqs |-> FftFreq(n_t, slf.dt_ps)]]

SdConstruct ==
    /\ pc = "new"
    /\ args.method = "calculate_sd"
    /\ LET o == SdConstructOutcome(traj, ctor)
       IN  /\ self' = o.self
           /\ err' = o.err
           /\ log' = log \cup o.log
           /\ pc' = IF o.err = "" THEN "ready" ELSE "ctor_raised"
    /\ UNCHANGED <<traj, ctor, args, mean_pos_all, freqs, atom_groups,
                   actual_k_chunk_size, num_chunks, i_chunk, is_complex_output,
                   full_sed_data, writes, result, recon>>

CalculateSd ==
    /\ pc = "ready"
    /\ args.method = "calculate_sd"
    /\ Finish(calculate_sd(self, traj, ctor.use_velocities, args.k_points,
                           args.k_vectors))

NextSd == SdConstruct \/ CalculateSd

\* the magnitudes of k-vectors along x
Magnitudes(kv) == [i \in 1..Len(kv) |-> Abs(kv[i][1])]

\* one, two and four frames of one or two atoms whose velocities do not
\* change while their positions oscillate; k = 0 and one k along x, and a
\* call with fewer k_points than k-vectors
SdInputs ==
    {<<tr, SdCtor(n[1], n[2], n[3], dt, uv), c>> :
        tr \in AxisTrajectories, n \in {<<1, 1, 1>>, <<0, 1, 1>>, <<1, 1, -1>>},
        dt \in 1..2, uv \in BOOLEAN,
        c \in {SdCall(Magnitudes(kv), kv) : kv \in {<<K0>>, <<K1>>, <<K0, K1>>}}
              \cup {SdCall(<<0>>, <<K0, K1>>), SdCall(<<0, 1>>, <<K0>>)}}

InitSd ==
    \E x \in {y \in SdInputs : y[1].n_frames > 0} : InitWith({x[1]}, {x[2]}, {x[3]})

SpecSd == InitSd /\ [][NextSd]_vars

---------------------------------------------------------------------------
(* Reference quantities for the claims, written from the mathematics:      *)
(* amplitude(w, k, p) = (1/n_t) sum_t sum_atom data(t, atom, p)            *)
(*                       exp(i k.r_atom) exp(-2 pi i w t / n_t)            *)

\* the data of atom a (0-based) at frame t: displacement from the site, or velocity
RefData(t, a) ==
    IF ctor.use_displacements THEN VSub(traj.positions[t][a + 1], Site(a))
    ELSE traj.velocities[t][a + 1]

\* the normalised projection of the atoms listed in grp, one term per entry
RefAmp(grp, w, kvec, p) ==
    CDiv(CSum([t \in 1..traj.n_frames |->
            CSum([j \in 1..Len(grp) |->
                CMul(CScale(RefData(t, grp[j])[p], CUnit(Dot(kvec, Site(grp[j])))),
                     CUnit(-((4 * (w - 1) * (t - 1)) \div traj.n_frames)))])]),
         traj.n_frames)

RefPower(grp, w, kvec) ==
    CAbs2(RefAmp(grp, w, kvec, 1)) + CAbs2(RefAmp(grp, w, kvec, 2))
        + CAbs2(RefAmp(grp, w, kvec, 3))

NumK == Len(args.k_vectors_3d)

\* some entry of the array is not zero
NonZeroData(arr) ==
    \E w \in 1..Len(arr.data) : \E k \in 1..Len(arr.data[w]) :
        IF Len(arr.shape) = 3
        THEN \E p \in 1..3 : arr.data[w][k][p] # CZero
        ELSE arr.data[w][k] # 0

---------------------------------------------------------------------------
(* C1: for every k_chunk_size the array returned is the one obtained by    *)
(* processing all k-vectors in one chunk: the effective chunk size lies in *)
(* 1..number of k-vectors, every k column is written exactly once, and     *)
(* column k is the one-vector computation on k_vectors[k] alone.           *)
C1_ChunkInvariance ==
    (pc = "returned" /\ ~Degenerate(traj.n_frames, traj.n_atoms)) =>
        /\ NumK > 0 => actual_k_chunk_size \in 1..NumK
        /\ \A k \in 1..NumK : writes[k] = 1
        /\ result.sed.shape[2] = NumK
        /\ result.sed.data =
             IF result.is_complex
             THEN calculate_sed_for_group(traj, ctor.use_displacements, args.k_vectors_3d,
                                          FinalGroupIndices(atom_groups), mean_pos_all)
             ELSE SummedIntensityChunk(traj, ctor.use_displacements, args.k_vectors_3d,
                                       atom_groups, mean_pos_all, Len(freqs))
        /\ \A w \in 1..Len(result.sed.data) : \A k \in 1..NumK :
             result.sed.data[w][k] =
               IF result.is_complex
               THEN [p \in 1..3 |-> RefAmp(FinalGroupIndices(atom_groups), w,
                                           args.k_vectors_3d[k], p)]
               ELSE SumInts([g \in 1..Len(atom_groups) |->
                                RefPower(atom_groups[g], w, args.k_vectors_3d[k])])

\* three k-vectors in chunks of two: a full chunk and a partial one
C1_Witness ==
    /\ pc = "returned"
    /\ NumK = 3
    /\ args.k_chunk_size = 2
    /\ num_chunks = 2
    /\ \E w \in 1..Len(result.sed.data) :
          result.sed.data[w][3] # result.sed.data[w][1]
    /\ NonZeroData(result.sed)

---------------------------------------------------------------------------
(* What the caller asked for, read off the selectors. *)

Idx == args.basis_atom_indices

Typ == args.basis_atom_types

BothGiven == Idx.kind # "none" /\ Typ.kind # "none"

NotDegenerate == traj.n_frames > 0 /\ traj.n_atoms > 0

\* calculate has resolved its groups
Grouped == pc \in {"loop", "returned"} /\ NotDegenerate

\* calculate has ended
Terminal == pc \in {"returned", "raised"}

AllAtoms == [i \in 1..traj.n_atoms |-> i - 1]

\* the index groups written in the selector, in the order given
AskedIndexGroups(sel) ==
    CASE sel.kind = "list" /\ sel.items # <<>> /\ AllLists(sel) ->
             [i \in 1..Len(sel.items) |-> Ints(sel.items[i])]
      [] sel.kind = "list" /\ sel.items # <<>> /\ AllInts(sel) -> <<Ints(sel)>>
      [] sel.kind = "ndarray" /\ sel.ndim = 1 /\ sel.items # <<>> -> <<Ints(sel)>>
      [] OTHER -> <<>>

\* the sets of type labels written in the selector; a flat list is one set,
\* or one set per label for the incoherent sum
AskedTypeSets(sel, mode) ==
    CASE sel.kind = "int" -> <<{sel.val}>>
      [] sel.kind = "list" /\ sel.items # <<>> /\ AllLists(sel) ->
             [i \in 1..Len(sel.items) |-> Range(Ints(sel.items[i]))]
      [] sel.kind = "list" /\ sel.items # <<>> /\ AllInts(sel) ->
             IF mode = "incoherent"
             THEN [i \in 1..Len(sel.items) |-> {sel.items[i].val}]
             ELSE <<Range(Ints(sel))>>
      [] OTHER -> <<>>

AtomsOfTypes(T) == SortedSeq({a \in 0..(traj.n_atoms - 1) : traj.types[a + 1] \in T})

TypeMatched(mode) ==
    [i \in 1..Len(AskedTypeSets(Typ, mode)) |-> AtomsOfTypes(AskedTypeSets(Typ, mode)[i])]

KeepNonEmpty(gs) == SelectSeq(gs, LAMBDA g : g # <<>>)

OrAllAtoms(gs) == IF gs = <<>> THEN <<AllAtoms>> ELSE gs

\* a list selector mixes ints and lists
Malformed(sel) == sel.kind = "list" /\ sel.items # <<>> /\ ~AllLists(sel) /\ ~AllInts(sel)

HasOutOfRange(sel) ==
    \E g \in 1..Len(AskedIndexGroups(sel)) : \E i \in 1..Len(AskedIndexGroups(sel)[g]) :
        \/ AskedIndexGroups(sel)[g][i] < 0
        \/ AskedIndexGroups(sel)[g][i] >= traj.n_atoms

SelectorsValid == /\ ~Malformed(Idx) /\ ~Malformed(Typ)
                  /\ ~HasOutOfRange(Idx)

BothWarning == "both basis_atom_types and basis_atom_indices provided"

---------------------------------------------------------------------------
(* C2 (as claimed): every SED returned has as many frequencies as rows of  *)
(* the sed array, and as many k columns as k-vectors passed in.  Refuted   *)
(* by the early return for 0 frames or 0 atoms, whose array is 0 x 0 x 3   *)
(* whatever the number of k-vectors.                                       *)
C2_ShapeInvariant ==
    pc = "returned" =>
        /\ Len(result.freqs) = result.sed.shape[1]
        /\ result.sed.shape[2] = Len(result.k_vectors)

---------------------------------------------------------------------------
(* C3 (as claimed): with both selectors given the groups are built from    *)
(* the explicit indices.                                                   *)
C3_IndicesTakePrecedence ==
    (BothGiven /\ Grouped) =>
        atom_groups = OrAllAtoms(KeepNonEmpty(AskedIndexGroups(Idx)))

(* C3 (amended): with both selectors given the groups are built from the   *)
(* type labels and the explicit indices are ignored, not even range        *)
(* checked; the only other effect is the logged warning.                   *)
C3_TypesTakePrecedence ==
    BothGiven =>
        /\ Grouped =>
             /\ atom_groups = OrAllAtoms(KeepNonEmpty(TypeMatched(args.summation_mode)))
             /\ BothWarning \in log
             /\ log \subseteq {BothWarning, "no atoms found for type group",
                               "k_vectors_3d is empty"}
        /\ (pc = "raised" /\ ValidMode(args.summation_mode)) => Malformed(Typ)

\* an index that would be refused is passed along with types, and the call returns
C3_Witness ==
    /\ BothGiven
    /\ pc = "returned"
    /\ NotDegenerate
    /\ HasOutOfRange(Idx)
    /\ atom_groups # OrAllAtoms(KeepNonEmpty(AskedIndexGroups(Idx)))
    /\ atom_groups = <<(<<0>>)>>

---------------------------------------------------------------------------
(* C4 (as claimed): an explicit index < 0 or >= the atom count makes       *)
(* calculate raise and return no SED, whatever the other arguments.        *)
C4_OutOfRangeAlwaysRaises ==
    (Terminal /\ HasOutOfRange(Idx)) => (pc = "raised" /\ result.kind = "none")

(* C4 (amended): an explicit index < 0 or >= the atom count, in a flat     *)
(* list, a list of lists or a 1-D array, makes calculate raise and return  *)
(* no SED when basis_atom_types is None and the trajectory has at least    *)
(* one frame and one atom.                                                 *)
C4_OutOfRangeRaises ==
    (Terminal /\ HasOutOfRange(Idx) /\ Typ.kind = "none" /\ NotDegenerate) =>
        (pc = "raised" /\ result.kind = "none" /\ err # "")

\* two index groups, the first in range and the second not
C4_Witness ==
    /\ pc = "raised"
    /\ err = "ValueError: atom indices in basis out of bounds"
    /\ Idx.kind = "list" /\ Len(Idx.items) = 2 /\ AllLists(Idx)
    /\ ~OutOfBounds(Ints(Idx.items[1]), traj.n_atoms)
    /\ Ints(Idx.items[2]) = <<traj.n_atoms>>

---------------------------------------------------------------------------
(* C5: the groups asked for that match no atom are dropped, the others are *)
(* used as they are, in order; when none is left the single group of all   *)
(* atoms is used; and a call whose groups all match no atom does not raise. *)
C5_EmptyGroupsDropped ==
    LET matched == IF Typ.kind # "none" THEN TypeMatched(args.summation_mode)
                   ELSE AskedIndexGroups(Idx)
    IN  /\ Grouped => atom_groups = OrAllAtoms(KeepNonEmpty(matched))
        /\ (Terminal /\ NotDegenerate /\ ValidMode(args.summation_mode)
              /\ ~Malformed(Idx) /\ ~Malformed(Typ) /\ KeepNonEmpty(matched) = <<>>)
             => pc = "returned"

\* two type groups are asked for, neither matches, and all atoms are used
C5_Witness ==
    /\ pc = "returned"
    /\ traj.n_atoms = 2
    /\ Len(TypeMatched(args.summation_mode)) = 2
    /\ KeepNonEmpty(TypeMatched(args.summation_mode)) = <<>>
    /\ atom_groups = <<(<<0, 1>>)>>

---------------------------------------------------------------------------
(* C9: with a valid mode and valid selectors, a trajectory of 0 frames or  *)
(* 0 atoms, or an empty k-vector list, makes calculate return an SED whose *)
(* data is empty or all zero; it never raises.                             *)
C9_DegenerateNeverRaises ==
    (Terminal /\ ValidMode(args.summation_mode) /\ SelectorsValid
       /\ (traj.n_frames = 0 \/ traj.n_atoms = 0 \/ NumK = 0)) =>
        /\ pc = "returned"
        /\ result.kind = "SED"
        /\ ~NonZeroData(result.sed)

\* no frames, two atoms, one k-vector, an index selector
C9_Witness ==
    /\ pc = "returned"
    /\ traj.n_frames = 0 /\ traj.n_atoms = 2 /\ NumK = 1
    /\ Idx = FlatList(<<0, 1>>)
    /\ result.kind = "SED"

---------------------------------------------------------------------------
(* The selected atoms and the single group of a one-group selector. *)

\* the distinct atoms of the resolved groups, ascending
UnionOfGroups == SortedSeq(UNION {Range(atom_groups[g]) : g \in 1..Len(atom_groups)})

\* exactly one group is written in the selector: one index set, or one set
\* of type labels (a flat list of labels being one set)
OneGroupSupplied ==
    \/ /\ Typ.kind = "none"
       /\ Len(AskedIndexGroups(Idx)) = 1
    \/ /\ Typ.kind # "none"
       /\ Len(AskedTypeSets(Typ, "coherent")) = 1

\* the atoms of that group, all atoms when it matches none
SuppliedGroup ==
    LET g == IF Typ.kind # "none" THEN AtomsOfTypes(AskedTypeSets(Typ, "coherent")[1])
             ELSE AskedIndexGroups(Idx)[1]
    IN  IF g = <<>> THEN AllAtoms ELSE g

\* the selector gives one group whichever the mode
OneGroupInBothModes ==
    /\ OneGroupSupplied
    /\ Typ.kind # "none" => Len(KeepNonEmpty(TypeMatched("incoherent"))) <= 1

---------------------------------------------------------------------------
(* C6 (as claimed): in coherent mode the array returned is the complex     *)
(* projection over the set of selected atoms, each distinct atom counted   *)
(* once, wherever the duplicates are.  Refuted by a single group that      *)
(* repeats an index: it is used as given, without np.unique.               *)
C6_CoherentUnion ==
    (pc = "returned" /\ NotDegenerate /\ args.summation_mode = "coherent") =>
        /\ result.is_complex
        /\ \A w \in 1..Len(result.sed.data) : \A k \in 1..NumK : \A p \in 1..3 :
             result.sed.data[w][k][p] = RefAmp(UnionOfGroups, w, args.k_vectors_3d[k], p)

---------------------------------------------------------------------------
(* C7: in incoherent mode with two or more non-empty groups the array      *)
(* returned is real, frequency x k, every entry the sum over the groups of *)
(* the sum over the three polarization axes of the squared modulus of the  *)
(* group's own projection, and none is negative.                           *)
C7_IncoherentSum ==
    (pc = "returned" /\ NotDegenerate /\ args.summation_mode = "incoherent"
       /\ Len(atom_groups) >= 2) =>
        /\ ~result.is_complex
        /\ result.sed.shape = <<traj.n_frames, NumK>>
        /\ Len(result.sed.data) = traj.n_frames
        /\ \A w \in 1..Len(result.sed.data) :
             /\ Len(result.sed.data[w]) = NumK
             /\ \A k \in 1..NumK :
                  /\ result.sed.data[w][k] =
                       SumInts([g \in 1..Len(atom_groups) |->
                                   RefPower(atom_groups[g], w, args.k_vectors_3d[k])])
                  /\ result.sed.data[w][k] >= 0

\* atom 0 is in both groups and is counted in each
C7_Witness ==
    /\ pc = "returned"
    /\ args.summation_mode = "incoherent"
    /\ atom_groups = <<(<<0>>), (<<0, 1>>)>>
    /\ ~result.is_complex
    /\ \E w \in 1..Len(result.sed.data) :
          /\ result.sed.data[w][1] > 0
          /\ result.sed.data[w][1] # RefPower(<<0, 1>>, w, args.k_vectors_3d[1])
          /\ result.sed.data[w][1] # RefPower(<<0, 0, 1>>, w, args.k_vectors_3d[1])

---------------------------------------------------------------------------
(* C8 (as claimed): with exactly one group supplied, a single index set or *)
(* a single type set, both modes take the coherent path and return the     *)
(* projection of that group, hence the same power.                         *)
C8_OneGroupModesCoincide ==
    (pc = "returned" /\ NotDegenerate /\ OneGroupSupplied) =>
        /\ result.is_complex
        /\ \A w \in 1..Len(result.sed.data) : \A k \in 1..NumK :
             /\ \A p \in 1..3 :
                  result.sed.data[w][k][p] = RefAmp(SuppliedGroup, w, args.k_vectors_3d[k], p)
             /\ CAbs2(result.sed.data[w][k][1]) + CAbs2(result.sed.data[w][k][2])
                  + CAbs2(result.sed.data[w][k][3])
                  = RefPower(SuppliedGroup, w, args.k_vectors_3d[k])

(* C8 (amended): when the selector gives one group whichever the mode (one *)
(* index set, one integer label, a one-element list of type sets, or a     *)
(* flat list of labels of which at most one entry matches an atom), both   *)
(* modes take the coherent path and return the projection of that group.   *)
C8_OneGroupInBothModesCoincide ==
    (pc = "returned" /\ NotDegenerate /\ OneGroupInBothModes) =>
        /\ result.is_complex
        /\ \A w \in 1..Len(result.sed.data) : \A k \in 1..NumK :
             /\ \A p \in 1..3 :
                  result.sed.data[w][k][p] = RefAmp(SuppliedGroup, w, args.k_vectors_3d[k], p)
             /\ CAbs2(result.sed.data[w][k][1]) + CAbs2(result.sed.data[w][k][2])
                  + CAbs2(result.sed.data[w][k][3])
                  = RefPower(SuppliedGroup, w, args.k_vectors_3d[k])

\* the incoherent mode with one index set returns the complex array
C8_Witness ==
    /\ pc = "returned"
    /\ args.summation_mode = "incoherent"
    /\ Idx = FlatList(<<0, 1>>) /\ Typ.kind = "none"
    /\ result.is_complex
    /\ NonZeroData(result.sed)

---------------------------------------------------------------------------
(* C10 (as claimed): for every non-degenerate box of either handedness and *)
(* positive nx, ny, nz the reciprocal vectors satisfy b_i . a_j = 2 pi if  *)
(* i = j and 0 otherwise.  In units of 2 pi, with b_i = num_i / den:       *)
(* num_i . a_j = den if i = j and 0 otherwise.  Refuted by a left-handed   *)
(* cell: the volume is taken in absolute value, so b_i . a_i = -2 pi.      *)
Constructed == pc \notin {"new", "ctor_raised"}

C10_ReciprocalDuality ==
    Constructed =>
        LET a == <<self.a1, self.a2, self.a3>>
            b == <<self.b1, self.b2, self.b3>>
        IN  \A i \in 1..3 : \A j \in 1..3 :
                Dot(b[i].num, a[j]) = IF i = j THEN b[i].den ELSE 0

---------------------------------------------------------------------------
(* The constructor's inputs, read from the arguments alone. *)
BoxRows == traj.box_matrix

RepeatCounts == <<ctor.nx, ctor.ny, ctor.nz>>

CtorDt == IF ctor.dt_ps.some THEN ctor.dt_ps ELSE traj.dt_ps

BadDims == \E i \in 1..3 : RepeatCounts[i] <= 0

BadDt == CtorDt.some /\ CtorDt.val <= 0

ZeroEdge == \E i \in 1..3 : BoxRows[i] = ZeroVec

Coplanar == Dot(BoxRows[1], Cross(BoxRows[2], BoxRows[3])) = 0

InvalidCtor == BadDims \/ BadDt \/ ZeroEdge \/ Coplanar

(* C11: constructing SEDCalculator raises, and leaves no calculator and no *)
(* reciprocal vectors, whenever a repeat count is <= 0, the timestep is    *)
(* <= 0, a primitive vector has zero length or the three vectors are       *)
(* coplanar; a calculator that was built never has a zero volume under its *)
(* reciprocal vectors.                                                     *)
C11_InvalidCtorRaises ==
    /\ (pc # "new" /\ InvalidCtor) =>
           (pc = "ctor_raised" /\ self = NoSelf /\ err # "")
    /\ Constructed =>
           (self.b1.den # 0 /\ self.b2.den # 0 /\ self.b3.den # 0)

\* a coplanar cell with valid counts, timestep and edges was rejected
C11_Witness ==
    /\ pc = "ctor_raised"
    /\ ~BadDims /\ CtorDt.some /\ ~BadDt /\ ~ZeroEdge
    /\ Coplanar

---------------------------------------------------------------------------
Column(m, j) == <<m[1][j], m[2][j], m[3][j]>>

(* C12 (as claimed): the primitive vectors are the columns of the box      *)
(* matrix over the repeat counts, a_i = column i / n_i, for every box      *)
(* matrix.  Refuted by a non-symmetric box: the rows are taken.            *)
C12_ColumnsOverCounts ==
    Constructed =>
        LET a == <<self.a1, self.a2, self.a3>>
        IN  \A i \in 1..3 : VScale(RepeatCounts[i], a[i]) = Column(BoxRows, i)

---------------------------------------------------------------------------
(* get_k_path: the call, its direction and the extent the spec prescribes. *)
IsPath == args.method = "get_k_path"

Finished == pc \in {"returned", "raised"}

PathDirection == helpers_parse_direction(args.direction_spec)

DirectionValid == PathDirection.err = ""

\* the largest |k_hat . b_i|, in units of 2 pi
LargestProjection ==
    LET b == <<self.b1, self.b2, self.b3>>
        proj(i) == Q(Abs(Dot(PathDirection.num, b[i].num)), PathDirection.den * b[i].den)
    IN  CHOOSE p \in {proj(i) : i \in 1..3} : \A i \in 1..3 : QLe(proj(i), p)

\* the decision order of the claim: which source the extent comes from, and
\* the extent in units of 2 pi
ExtentDecision ==
    LET lat == args.lat_param
    IN  IF lat.some /\ lat.val[1] * EpsInv > lat.val[2]
        THEN [from |-> "lattice_parameter", extent |-> Q(lat.val[2], lat.val[1])]
        ELSE IF LargestProjection[1] * 6 * EpsInv > LargestProjection[2]
        THEN [from |-> "projection", extent |-> LargestProjection]
        ELSE IF Dot(self.a1, self.a1) > 0
        THEN [from |-> "a1", extent |-> Q(1, Norm(self.a1))]
        ELSE [from |-> "fail", extent |-> QZero]

ExtentMessages ==
    [lattice_parameter |-> "Using provided lattice parameter",
     projection |-> "Using directional reciprocal lattice projection",
     a1 |-> "Reciprocal projections too small, using |a1| fallback"]

\* the messages about the extent's source that were logged
ExtentLogged == log \cap {ExtentMessages[k] : k \in DOMAIN ExtentMessages}

KMax == QMul(args.bz_coverage, ExtentDecision.extent)

---------------------------------------------------------------------------
---------------------------------------------------------------------------
(* get_k_grid: the call, the plane's axes and the samples of a range. *)
IsGrid == args.method = "get_k_grid"

PlaneSupported == Lower(args.plane) \in {"xy", "yz", "zx"}

\* <<first swept component, second swept component, out-of-plane component>>
PlaneAxes == CASE Lower(args.plane) = "xy" -> <<1, 2, 3>>
               [] Lower(args.plane) = "yz" -> <<2, 3, 1>>
               [] OTHER -> <<3, 1, 2>>

\* sample i (from 0) of n evenly spaced samples over the range, ends included
Sample(range, n, i) ==
    IF n = 1 THEN range[1]
    ELSE Q(range[1][1] * range[2][2] * (n - 1)
             + i * (range[2][1] * range[1][2] - range[1][1] * range[2][2]),
           range[1][2] * range[2][2] * (n - 1))

(* C15: for each of the three planes and positive counts n_a, n_b,         *)
(* get_k_grid returns n_a * n_b vectors in row-major order: the vector at  *)
(* flat index i * n_b + j holds sample i of the first range and sample j   *)
(* of the second range in the plane's two swept components and fixed_value *)
(* exactly in the third; the shape tag is (n_a, n_b) and the magnitude     *)
(* array is empty.                                                         *)
C15_GridRowMajor ==
    (IsGrid /\ Finished /\ PlaneSupported /\ args.n_kx > 0 /\ args.n_ky > 0) =>
        /\ pc = "returned"
        /\ result.kind = "k_grid"
        /\ Len(result.k_vecs) = args.n_kx * args.n_ky
        /\ result.shape = <<args.n_kx, args.n_ky>>
        /\ result.k_mags = <<>>
        /\ \A i \in 0..(args.n_kx - 1) : \A j \in 0..(args.n_ky - 1) :
               LET v == result.k_vecs[i * args.n_ky + j + 1]
               IN  /\ QEq(v[PlaneAxes[1]], Sample(args.k_range_x, args.n_kx, i))
                   /\ QEq(v[PlaneAxes[2]], Sample(args.k_range_y, args.n_ky, j))
                   /\ v[PlaneAxes[3]] = args.k_fixed_val

\* a 2 x 3 grid in the zx plane over two different ranges, off the origin
C15_Witness ==
    /\ IsGrid /\ pc = "returned"
    /\ Lower(args.plane) = "zx"
    /\ args.n_kx = 2 /\ args.n_ky = 3
    /\ args.k_range_x # args.k_range_y
    /\ args.k_fixed_val # QZero
    /\ Len(result.k_vecs) = 6

---------------------------------------------------------------------------
(* C16: get_k_path raises for every n_k < 1, and get_k_grid raises         *)
(* whenever a point count is <= 0 or the plane is not one of the three     *)
(* supported planes; in each case no sampling is returned.                 *)
C16_SamplersReject ==
    /\ (IsPath /\ Finished /\ args.n_k < 1) =>
           (pc = "raised" /\ err # "" /\ result = NoValue)
    /\ (IsGrid /\ Finished /\ (args.n_kx <= 0 \/ args.n_ky <= 0 \/ ~PlaneSupported)) =>
           (pc = "raised" /\ err # "" /\ result = NoValue)

\* n_k = 0 was the only thing wrong with a path call
C16_Witness ==
    /\ IsPath /\ pc = "raised"
    /\ args.n_k = 0
    /\ DirectionValid
    /\ ExtentDecision.from # "fail"
    /\ err = "ValueError: n_k (k-points) must be >= 1."

---------------------------------------------------------------------------
(* parse_direction: the call and the malformed specifications. *)
IsParse == args.method = "parse_direction"

SequenceKinds == {"list", "tuple", "ndarray"}

SupportedKinds == {"int", "float", "str", "dict"} \cup SequenceKinds

BadLength(d) == d.kind \in SequenceKinds /\ Len(d.items) \notin {1, 3}

UnknownString(d) ==
    /\ d.kind = "str"
    /\ d.str \notin NumericStrings
    /\ d.str \notin {"x", "y", "z", "X", "Y", "Z"}

\* three zero components, or a dict without an angle whose h, k, l are
\* absent or zero
ZeroLength(d) ==
    \/ d.kind \in SequenceKinds /\ d.items = <<0, 0, 0>>
    \/ /\ d.kind = "dict"
       /\ "angle" \notin d.keys
       /\ ("h" \in d.keys => d.items[2] = 0)
       /\ ("k" \in d.keys => d.items[3] = 0)
       /\ ("l" \in d.keys => d.items[4] = 0)

MalformedDirection(d) ==
    BadLength(d) \/ UnknownString(d) \/ d.kind \notin SupportedKinds \/ ZeroLength(d)

(* C17: parse_direction raises a validation error for a list, tuple or     *)
(* array whose length is neither 1 nor 3, for an unknown direction string, *)
(* for an unsupported type and for a specification that resolves to a      *)
(* zero-length vector; in every other case it returns a 3-component        *)
(* vector.                                                                 *)
C17_ParseRejectsMalformed ==
    (IsParse /\ Finished) =>
        IF MalformedDirection(args.direction)
        THEN pc = "raised" /\ err # "" /\ result = NoValue
        ELSE pc = "returned" /\ result.kind = "direction" /\ Len(result.vec) = 3

\* a dict whose Miller indices are all zero was rejected as zero-length
C17_Witness ==
    /\ IsParse /\ pc = "raised"
    /\ args.direction.kind = "dict"
    /\ args.direction.keys = {"k"}
    /\ err = "ValueError: Direction vector cannot be zero"

---------------------------------------------------------------------------
(* calculate_chiral_phase: the call and its arrays. *)
IsChiral == args.method = "calculate_chiral_phase"

ZeroSized(arr) == \E i \in 1..Len(arr.shape) : arr.shape[i] = 0

(* C18: calculate_chiral_phase raises a validation error whenever the      *)
(* shapes of Z1 and Z2 differ, for every mode; for equal-shaped zero-sized *)
(* inputs it returns a zero-sized array of the same shape.                 *)
C18_ShapesMustMatch ==
    (IsChiral /\ Finished) =>
        /\ args.Z1.shape # args.Z2.shape =>
               (pc = "raised" /\ err # "" /\ result = NoValue)
        /\ (args.Z1.shape = args.Z2.shape /\ ZeroSized(args.Z1)) =>
               (pc = "returned" /\ result.kind = "phase"
                /\ result.shape = args.Z1.shape /\ result.data = <<>>)

\* a 1 x 2 and a 2 x 1 array, of the same size, were rejected
C18_Witness ==
    /\ IsChiral /\ pc = "raised"
    /\ args.Z1.shape = <<1, 2>> /\ args.Z2.shape = <<2, 1>>
    /\ args.angle_range_opt = "A"

---------------------------------------------------------------------------
ModeCReturned == IsChiral /\ pc = "returned" /\ args.angle_range_opt = "C"

\* angle(Z1) - angle(Z2) of a cell brought into [-pi, pi), in units of pi / 4
Wrapped(c) ==
    CHOOSE w \in -4..3 : (w - (Angle(args.Z1.data[c]) - Angle(args.Z2.data[c]))) % 8 = 0

Folded(c) == IF Wrapped(c) > 2 THEN 4 - Wrapped(c)
             ELSE IF Wrapped(c) < -2 THEN -4 - Wrapped(c)
             ELSE Wrapped(c)

(* C19 (as claimed): for mode "C" every value of the output lies in the    *)
(* half-open interval (-pi/2, pi/2].  Refuted by a phase difference of     *)
(* exactly -pi/2, which is not folded.                                     *)
C19_HalfOpenRange ==
    ModeCReturned =>
        \A c \in 1..Len(result.data) : -2 < result.data[c] /\ result.data[c] <= 2

(* C19 (amended): for mode "C" every value of the output lies in the       *)
(* closed interval [-pi/2, pi/2]: the phase difference is wrapped, values  *)
(* above pi/2 are folded to pi - delta and values below -pi/2 to           *)
(* -pi - delta.                                                            *)
C19_ClosedRange ==
    ModeCReturned =>
        /\ Len(result.data) = Size(args.Z1)
        /\ \A c \in 1..Len(result.data) :
               /\ -2 <= result.data[c] /\ result.data[c] <= 2
               /\ result.data[c] = Folded(c)

\* one cell folded from 3 pi / 4 to pi / 4, one cell at exactly -pi / 2
C19_Witness ==
    /\ ModeCReturned
    /\ Len(result.data) = 2
    /\ Wrapped(1) = 3 /\ result.data[1] = 1
    /\ result.data[2] = -2

---------------------------------------------------------------------------
(* C20: calculate_chiral_phase(Z, Z, "C") is zero in every cell, for any   *)
(* complex array Z, cells where Z is 0 included.                           *)
C20_SelfPhaseZero ==
    (ModeCReturned /\ args.Z1 = args.Z2) =>
        /\ result.shape = args.Z1.shape
        /\ \A c \in 1..Len(result.data) : result.data[c] = 0

\* Z holds a zero cell and a cell in the second quadrant
C20_Witness ==
    /\ ModeCReturned /\ args.Z1 = args.Z2
    /\ args.Z1.data = <<(<<0, 0>>), (<<-1, 1>>)>>
    /\ result.data = <<0, 0>>

---------------------------------------------------------------------------
\* a mode other than "C" applied to two-dimensional arrays of one shape
OtherModeCall ==
    /\ IsChiral /\ Finished
    /\ args.angle_range_opt # "C"
    /\ args.Z1.shape = args.Z2.shape
    /\ Len(args.Z1.shape) = 2
    /\ ~ZeroSized(args.Z1)

(* C21: for the modes other than "C", on (frequency x k) arrays: the call  *)
(* returns an array of the input's shape; a cell in which either value is  *)
(* negligible is 0; mode "A" gives values in [0, pi], mode "B" values in   *)
(* [-pi/2, pi/2]; an unrecognized mode gives 0 in every cell and does not  *)
(* raise.                                                                  *)
C21_OtherModes ==
    OtherModeCall =>
        /\ pc = "returned" /\ err = ""
        /\ result.kind = "phase" /\ result.shape = args.Z1.shape
        /\ Len(result.data) = Size(args.Z1)
        /\ \A c \in 1..Len(result.data) :
               /\ (CAbs2(args.Z1.data[c]) = 0 \/ CAbs2(args.Z2.data[c]) = 0) =>
                      result.data[c] = 0
               /\ args.angle_range_opt = "A" =>
                      (0 <= result.data[c] /\ result.data[c] <= 4)
               /\ args.angle_range_opt = "B" =>
                      (-2 <= result.data[c] /\ result.data[c] <= 2)
               /\ args.angle_range_opt \notin {"A", "B"} => result.data[c] = 0

\* mode "A": a cell whose second value is 0 gave 0, the other cell pi / 2
C21_Witness ==
    /\ OtherModeCall /\ args.angle_range_opt = "A"
    /\ args.Z1.shape = <<1, 2>>
    /\ args.Z1.data[1] = <<-1, 1>> /\ args.Z2.data[1] = <<0, 0>>
    /\ result.data = <<0, 2>>

---------------------------------------------------------------------------
IsIsed == args.method = "ised"

\* ised wrote its dump
Dumped == IsIsed /\ pc = "returned" /\ result.kind = "dump"

\* the reconstructed displacement of a dump: position minus mean position,
\* the mean position of atom a (1-based) being its site
Field(dump, t, a, p) == QSub(dump.positions[t][a][p], Q(Site(a - 1)[p], 1))

\* the same call with another rescale_factor
WithFactor(f) ==
    ised(self, traj, ctor.use_displacements, [args EXCEPT !.rescale_factor = f])

SomeMotion(dump) ==
    \E t \in 1..Len(dump.positions) : \E a \in 1..traj.n_atoms : \E p \in 1..3 :
        ~QEq(Field(dump, t, a, p), QZero)

(* C22: the displacement field dumped with rescale_factor = 2.0 is, for    *)
(* every synthetic frame, atom and axis, exactly twice the field dumped by *)
(* the same call with rescale_factor = 1.0.                                *)
C22_FactorTwoDoubles ==
    (Dumped /\ args.rescale_factor = Factor(Q(2, 1))) =>
        LET one == WithFactor(Factor(Q(1, 1)))
        IN  /\ one.err = "" /\ one.result.kind = "dump"
            /\ Len(one.result.positions) = args.n_recon_frames
            /\ Len(result.positions) = args.n_recon_frames
            /\ \A t \in 1..args.n_recon_frames : \A a \in 1..traj.n_atoms :
                   \A p \in 1..3 :
                       QEq(Field(result, t, a, p),
                           QMul(Q(2, 1), Field(one.result, t, a, p)))

\* a dump with factor 2 of two frames in which the atoms do move
C22_Witness ==
    /\ Dumped /\ args.rescale_factor = Factor(Q(2, 1))
    /\ args.n_recon_frames = 2
    /\ SomeMotion(result)
    /\ SomeMotion(WithFactor(Factor(Q(1, 1))).result)

---------------------------------------------------------------------------
\* ised is past its entry, with a direction and a point count that
\* get_k_path accepts
IsedEntered ==
    /\ IsIsed /\ pc \in {"ised_loop", "returned", "raised"}
    /\ helpers_parse_direction(args.k_dir_spec).err = ""
    /\ args.nk_on_path >= 1

\* the groups calculate resolves from the selectors handed to ised
CalculateGroups(summation_mode) ==
    ResolveGroups(traj, args.basis_atom_idx_ised, args.basis_atom_types_ised,
                  summation_mode)

(* C23 (as claimed): ised resolves its selectors into the groups that      *)
(* calculate resolves from the same indices and types arguments: it raises *)
(* when calculate raises, and otherwise reconstructs the same list of      *)
(* groups, with the same precedence, the same reading of a flat list of    *)
(* types and the same fallback to one group of all atoms.                  *)
C23_GroupsAsCalculate ==
    IsedEntered =>
        \A summation_mode \in {"coherent", "incoherent"} :
            IF CalculateGroups(summation_mode).err # ""
            THEN pc = "raised" /\ recon = NoRecon
            ELSE recon.recon_atom_groups = CalculateGroups(summation_mode).groups

---------------------------------------------------------------------------
\* the frequency of bin j (1-based) of a transform of n_frames frames
RefFreq(j) ==
    Q(IF 2 * (j - 1) < traj.n_frames THEN j - 1 ELSE j - 1 - traj.n_frames,
      traj.n_frames * self.dt_ps)

RefFreqs == [j \in 1..traj.n_frames |-> RefFreq(j)]

\* idx (0-based) is the first index of xs nearest to target
Nearest(xs, target, idx) ==
    /\ idx \in 0..(Len(xs) - 1)
    /\ \A j \in 1..Len(xs) :
           QLe(QAbsDiff(xs[idx + 1], target), QAbsDiff(xs[j], target))
    /\ \A j \in 1..idx :
           ~QLe(QAbsDiff(xs[j], target), QAbsDiff(xs[idx + 1], target))

\* the group of the pass about to run
CurrentGroup == recon.recon_atom_groups[recon.i_grp + 1]

\* a pass of the group loop over a group that has atoms
IsedPass ==
    /\ IsIsed /\ pc = "ised_loop"
    /\ recon.i_grp < Len(recon.recon_atom_groups)
    /\ recon'.i_grp = recon.i_grp + 1
    /\ Len(CurrentGroup) > 0

\* Re(amp exp(i 2 pi (t - 1) / n_recon_frames - i 2 pi k r)) for the atom a
\* (1-based), k in units of 2 pi
RefMotion(amp, t, a) ==
    CMul(amp, CUnit(((4 * (t - 1)) \div args.n_recon_frames)
                    - ((4 * recon.k_actual[1] * recon.pos_proj_k_dir[a])
                           \div recon.k_actual[2])))[1]

(* C24: in every pass of the group loop the k index is the one fixed at    *)
(* entry, the first index of the path nearest to k_target; the frequency   *)
(* index is the first index of the frequency axis nearest to w_target; and *)
(* what the pass adds to the wiggles of the group's atoms is the real part *)
(* of the group's coherent amplitude at that (frequency, k) bin times the  *)
(* phase factor, with no interpolation.                                    *)
C24_NearestBin ==
    [][IsedPass =>
        /\ Nearest(recon.k_mags_ised, args.k_target, recon.k_match_idx)
        /\ recon'.k_match_idx = recon.k_match_idx
        /\ recon.k_actual = recon.k_mags_ised[recon.k_match_idx + 1]
        /\ Nearest(RefFreqs, args.w_target, recon'.w_match_idx)
        /\ \A t \in 1..args.n_recon_frames : \A j \in 1..Len(CurrentGroup) :
               \A p \in 1..3 :
                   LET a == CurrentGroup[j] + 1
                       kvec == QuarterTurns(recon.k_vecs_ised)[recon.k_match_idx + 1]
                       amp == RefAmp(CurrentGroup, recon'.w_match_idx + 1, kvec, p)
                   IN  QEq(QSub(recon'.wiggles[t][a][p], recon.wiggles[t][a][p]),
                           Q(RefMotion(amp, t, a), 1))
      ]_vars

\* two groups done on two frames and a path of three points: w_target lay
\* midway between the two frequencies and the first was taken; k_target
\* was nearest to the middle point
C24_Witness ==
    /\ IsIsed /\ pc = "ised_loop" /\ recon.i_grp = 2
    /\ traj.n_frames = 2 /\ args.nk_on_path = 3
    /\ args.w_target = Q(-1, 4) /\ recon.w_match_idx = 0
    /\ args.k_target = Q(1, 1) /\ recon.k_match_idx = 1
    /\ recon.wiggles[1][1][1] # QZero

---------------------------------------------------------------------------
\* the group loop is over, the wiggles are not rescaled yet
LoopDone ==
    IsIsed /\ pc = "ised_loop" /\ recon.i_grp = Len(recon.recon_atom_groups)

\* the first frequency bin nearest to w_target, 1-based
RefBin == 1 + (CHOOSE idx \in 0..(traj.n_frames - 1) : Nearest(RefFreqs, args.w_target, idx))

\* what group g contributes to the atom a (1-based) on axis p in frame t
Contribution(g, t, a, p) ==
    LET grp == recon.recon_atom_groups[g]
        kvec == QuarterTurns(recon.k_vecs_ised)[recon.k_match_idx + 1]
    IN  IF (a - 1) \in Range(grp)
        THEN RefMotion(RefAmp(grp, RefBin, kvec, p), t, a)
        ELSE 0

Contributions(t, a, p) ==
    SumInts([g \in 1..Len(recon.recon_atom_groups) |-> Contribution(g, t, a, p)])

InNoGroup(a) ==
    \A g \in 1..Len(recon.recon_atom_groups) : (a - 1) \notin Range(recon.recon_atom_groups[g])

(* C25: after the group loop the wiggle of every atom, axis and synthetic  *)
(* frame is the sum of the contributions of the groups the atom belongs    *)
(* to, 0 for an atom of no group; and in the dump an atom of no group sits *)
(* at its mean position in every frame, whatever the rescale setting.      *)
C25_GroupsAccumulate ==
    /\ LoopDone =>
           \A t \in 1..args.n_recon_frames : \A a \in 1..traj.n_atoms : \A p \in 1..3 :
               QEq(recon.wiggles[t][a][p], Q(Contributions(t, a, p), 1))
    /\ Dumped =>
           \A t \in 1..args.n_recon_frames : \A a \in 1..traj.n_atoms : \A p \in 1..3 :
               InNoGroup(a) => QEq(result.positions[t][a][p], Q(Site(a - 1)[p], 1))

\* auto mode, the groups [0] and [0]: atom 0 received both contributions,
\* atom 1, of no group, was dumped at its mean position
C25_Witness ==
    /\ Dumped /\ IsAuto(args.rescale_factor)
    /\ recon.recon_atom_groups = <<(<<0>>), (<<0>>)>>
    /\ Contributions(1, 1, 1) = 2 * Contribution(1, 1, 1, 1)
    /\ Contribution(1, 1, 1, 1) # 0
    /\ ~QEq(Field(result, 1, 1, 1), QZero)
    /\ InNoGroup(2) /\ QEq(Field(result, 1, 2, 1), QZero)

---------------------------------------------------------------------------
\* the step from the end of the group loop to the dump, in auto mode, with
\* at least one atom reconstructed
AutoFinish ==
    /\ LoopDone /\ IsAuto(args.rescale_factor)
    /\ pc' = "returned" /\ result'.kind = "dump"
    /\ Len(AllReconIdx(recon.recon_atom_groups)) > 0

\* the peak absolute amplitude of the field w over the reconstructed atoms
Peak(w) == AMax(AbsValues(w, AllReconIdx(recon.recon_atom_groups)))

\* the average over the groups, weighted by their atom counts, of the
\* standard deviation of positions - mean position
WeightedStd ==
    LET gs == recon.recon_atom_groups
        full == {g \in 1..Len(gs) : Len(gs[g]) > 0}
        weighted(g) == QMul(Std(OrigDisp(traj, recon.avg_pos, gs[g])), Q(Len(gs[g]), 1))
        RECURSIVE Total(_)
        Total(S) == IF S = {} THEN QZero
                    ELSE LET g == CHOOSE x \in S : TRUE
                         IN  QAdd(weighted(g), Total(S \ {g}))
        atoms == SumInts([g \in 1..Len(gs) |-> Len(gs[g])])
    IN  QMul(Total(full), Q(1, atoms))

\* every reconstructed atom's field is the old one times f, the others keep theirs
ScaledBy(f) ==
    \A t \in 1..args.n_recon_frames : \A a \in 1..traj.n_atoms : \A p \in 1..3 :
        QEq(recon'.wiggles[t][a][p],
            IF InNoGroup(a) THEN recon.wiggles[t][a][p]
            ELSE QMul(recon.wiggles[t][a][p], f))

NearZeroWarning == "iSED: Max wiggle amp near zero. Auto-rescaling ineffective."

(* C26: in auto mode a peak above 1e-9 of the reconstructed field is       *)
(* scaled to 1 and the field is then multiplied by the weighted average    *)
(* standard deviation (when that average is above 1e-9, the case in which  *)
(* the code multiplies); a negligible peak leaves the field as it is and   *)
(* logs the warning.                                                       *)
C26_AutoRescale ==
    [][AutoFinish =>
        IF GtTiny(Peak(recon.wiggles))
        THEN /\ ScaledBy(IF GtTiny(WeightedStd)
                         THEN QMul(QInv(Peak(recon.wiggles)), WeightedStd)
                         ELSE QInv(Peak(recon.wiggles)))
             /\ NearZeroWarning \notin log'
        ELSE ScaledBy(Q(1, 1)) /\ log' \ log = {NearZeroWarning}
      ]_vars

---------------------------------------------------------------------------
\* calculate has returned an SED of a trajectory with frames and atoms
ReturnedSED ==
    /\ pc = "returned" /\ result.kind = "SED"
    /\ ~Degenerate(traj.n_frames, traj.n_atoms)

\* the sample frequencies of n frames have both signs
BothSignsExist(n) == n >= 3

Positive(q) == q[1] > 0 /\ q[2] > 0

Negative(q) == q[1] < 0 /\ q[2] > 0

Increasing(xs) ==
    \A j \in 1..(Len(xs) - 1) : QLe(xs[j], xs[j + 1]) /\ ~QEq(xs[j], xs[j + 1])

HasBothSigns(xs) ==
    (\E j \in 1..Len(xs) : Positive(xs[j])) /\ (\E j \in 1..Len(xs) : Negative(xs[j]))

(* C27 as stated: for every frame count that has both signs, the frequency *)
(* axis of a returned SED increases along the frequency index, has zero at *)
(* its centre and has positive and negative entries.                       *)
C27_AxisOrdered ==
    (ReturnedSED /\ BothSignsExist(traj.n_frames)) =>
        /\ Increasing(result.freqs)
        /\ QEq(result.freqs[(traj.n_frames \div 2) + 1], QZero)
        /\ HasBothSigns(result.freqs)

(* C27, amended: the frequency axis of a returned SED has one entry per    *)
(* frame, in the order of the FFT output: index j holds j / (n dt) for     *)
(* j <= (n - 1) div 2 and (j - n) / (n dt) after that.  So zero comes      *)
(* first, the positive frequencies follow in increasing order, then the    *)
(* negative ones in increasing order; the axis as a whole is increasing    *)
(* only for one frame, and it has both signs exactly from three frames on. *)
C27_AxisFftOrder ==
    ReturnedSED =>
        LET n == traj.n_frames
            half == (n - 1) \div 2
            fr == result.freqs
        IN  /\ Len(fr) = n
            /\ \A j \in 0..(n - 1) :
                   QEq(fr[j + 1], Q(IF j <= half THEN j ELSE j - n, n * self.dt_ps))
            /\ QEq(fr[1], QZero)
            /\ \A j \in 1..half : Positive(fr[j + 1]) /\ QLe(fr[j], fr[j + 1])
            /\ \A j \in (half + 1)..(n - 1) : Negative(fr[j + 1])
            /\ \A j \in (half + 2)..(n - 1) : QLe(fr[j], fr[j + 1])
            /\ Increasing(fr) <=> n = 1
            /\ HasBothSigns(fr) <=> BothSignsExist(n)

\* four frames with timestep 2: the axis is 0, 1/8, -2/8, -1/8
C27_Witness ==
    /\ ReturnedSED /\ traj.n_frames = 4 /\ self.dt_ps = 2
    /\ result.freqs = <<(<<0, 8>>), (<<1, 8>>), (<<-2, 8>>), (<<-1, 8>>)>>
    /\ HasBothSigns(result.freqs) /\ ~Increasing(result.freqs)

---------------------------------------------------------------------------
\* the signal of the atom a (1-based) on axis p at frame t
Signal(use_displacements, t, a, p) ==
    DataFt(traj, use_displacements, MeanPositions(traj), t, a - 1)[p]

\* no atom's signal changes with the frame
ConstantSignal(use_displacements) ==
    \A t \in 1..traj.n_frames : \A a \in 1..traj.n_atoms : \A p \in 1..3 :
        Signal(use_displacements, t, a, p) = Signal(use_displacements, 1, a, p)

\* the sum over the atoms (0-based) of grp of their signal on axis p
SignalSum(use_displacements, grp, p) ==
    SumInts([j \in 1..Len(grp) |-> Signal(use_displacements, 1, grp[j] + 1, p)])

\* calculate_sd has returned its array
ReturnedSd == args.method = "calculate_sd" /\ pc = "returned" /\ result.kind = "sd"

(* C28: SDCalculator.calculate_sd on a signal that is constant in time,    *)
(* for every frame count from 1: the zero-frequency bin at k = 0 is the    *)
(* sum of the signal over the atoms, whatever the number of frames, and    *)
(* every other frequency bin is 0.                                         *)
C28_FrameNormalized ==
    (ReturnedSd /\ ConstantSignal(~ctor.use_velocities)) =>
        \A k \in 1..Len(args.k_vectors) : \A p \in 1..3 :
            /\ args.k_vectors[k] = K0 =>
                   result.sed_w[1][k][p]
                       = <<SignalSum(~ctor.use_velocities, Arange(traj.n_atoms), p), 0>>
            /\ \A w \in 2..traj.n_frames : result.sed_w[w][k][p] = CZero

\* the same for the array SEDCalculator.calculate returns in coherent mode,
\* where the groups are merged into one: the division by the frame count
\* of line 83 makes the zero-frequency bin at k = 0 the sum of the signal
GroupTransformNormalized ==
    (ReturnedSED /\ result.is_complex /\ ConstantSignal(ctor.use_displacements)) =>
        \A k \in 1..Len(args.k_vectors_3d) : \A p \in 1..3 :
            /\ args.k_vectors_3d[k] = K0 =>
                   result.sed.data[1][k][p]
                       = <<SignalSum(ctor.use_displacements,
                                    Unique(Concatenate(atom_groups)), p), 0>>
            /\ \A w \in 2..traj.n_frames : result.sed.data[w][k][p] = CZero

\* the velocities of four frames went through SEDCalculator.calculate
GroupTransformWitness ==
    /\ ReturnedSED /\ result.is_complex /\ ~ctor.use_displacements
    /\ traj.n_frames = 4 /\ traj.n_atoms = 2 /\ args.k_vectors_3d[1] = K0
    /\ result.sed.data[1][1][1] = <<32, 0>>

---------------------------------------------------------------------------
\* the selector is a non-empty list of ints
FlatSelector(sel) == sel.kind = "list" /\ Len(sel.items) > 0 /\ AllInts(sel)

\* calculate was called with a flat list of type labels that all occur
FlatTypes ==
    /\ FlatSelector(args.basis_atom_types)
    /\ \A i \in 1..Len(args.basis_atom_types.items) :
           \E a \in 1..traj.n_atoms : traj.types[a] = args.basis_atom_types.items[i].val

\* calculate was called with a flat list of atom indices and no types
FlatIndices == args.basis_atom_types = PyNone /\ FlatSelector(args.basis_atom_indices)

\* what the same call returns in coherent mode
CoherentResult ==
    calculate(self, traj, ctor.use_displacements, args.k_vectors_3d,
              args.basis_atom_indices, args.basis_atom_types, "coherent",
              args.k_chunk_size).result

(* C29: a flat list of type labels gives one group of all the atoms of     *)
(* those types in coherent mode and one group per label, in the order of   *)
(* the list, in incoherent mode; a flat list of atom indices gives the one *)
(* group of those indices in both modes, and incoherent mode then returns  *)
(* the complex result of coherent mode.                                    *)
C29_FlatSelectors ==
    /\ (Grouped /\ FlatTypes) =>
           LET labels == Ints(args.basis_atom_types)
           IN  IF args.summation_mode = "coherent"
               THEN atom_groups = <<AtomsOfTypes(Range(labels))>>
               ELSE atom_groups = [i \in 1..Len(labels) |-> AtomsOfTypes({labels[i]})]
    /\ (Grouped /\ FlatIndices) => atom_groups = <<Ints(args.basis_atom_indices)>>
    /\ (Grouped /\ FlatIndices /\ pc = "returned" /\ args.summation_mode = "incoherent") =>
           /\ result.is_complex
           /\ result = CoherentResult

\* incoherent mode returned a non-zero complex array for the flat list
\* [1, 0], the one the coherent call returns
C29_Witness ==
    /\ pc = "returned" /\ args.summation_mode = "incoherent" /\ FlatIndices
    /\ Ints(args.basis_atom_indices) = <<1, 0>>
    /\ atom_groups = <<(<<1, 0>>)>>
    /\ result.is_complex /\ result = CoherentResult
    /\ result.sed.data[1][1] # <<CZero, CZero, CZero>>

---------------------------------------------------------------------------
\* calculate has returned an SED, that of an empty trajectory included
AnySED == pc = "returned" /\ result.kind = "SED"

(* C30: a returned SED has is_complex True exactly when its array has the  *)
(* three axes frequency x k x 3 and False exactly when it has the two axes *)
(* frequency x k; is_complex is False only in incoherent mode with at      *)
(* least two groups resolved, all non-empty; and phase is None.            *)
C30_FlagMatchesArray ==
    AnySED =>
        LET shape == result.sed.shape
        IN  /\ result.is_complex <=> Len(shape) = 3
            /\ ~result.is_complex <=> Len(shape) = 2
            /\ Len(shape) = 3 => shape[3] = 3
            /\ shape[1] = Len(result.freqs)
            /\ shape[2] = (IF Degenerate(traj.n_frames, traj.n_atoms) THEN 0
                           ELSE Len(args.k_vectors_3d))
            /\ \A w \in 1..Len(result.sed.data) : \A k \in 1..Len(result.sed.data[w]) :
                   result.is_complex => Len(result.sed.data[w][k]) = 3
            /\ ~result.is_complex =>
                   /\ args.summation_mode = "incoherent"
                   /\ Len(atom_groups) >= 2
                   /\ \A g \in 1..Len(atom_groups) : Len(atom_groups[g]) > 0
            /\ result.phase = "None"

\* incoherent mode over two groups returned a two-axis array with the flag
\* False
C30_Witness ==
    /\ AnySED /\ ~result.is_complex
    /\ args.summation_mode = "incoherent" /\ Len(atom_groups) = 2
    /\ result.sed.shape = <<1, 1>>
    /\ result.phase = "None"

===========================================================================
